--------------------------- MODULE MC_ConfigStore ---------------------------
(***************************************************************************)
(* Files "cfg" may hold before the first run, for ConfigStore.             *)
(***************************************************************************)
EXTENDS ConfigStore

\* A configuration saved by an earlier run: device 1, port 27005.
SavedConfig == << 1, DELIM, 27005, DELIM, G, DELIM, NUL >>

\* Every run starts from a saved configuration or the default one.
MCSavedFiles == {FileOf(DefaultConfig), FileOf(SavedConfig)}

\* The first run may find no file, the default or a saved configuration.
MCAnyFile == MCSavedFiles \cup {ABSENT}

\* Numbers typed at the port prompt: a port, the same port plus 65536, -1
\* (port 65535) and 65536 (port 0, asked again).
MCPorts == {27005, 92541, -1, 65536}

\* The first run finds no file.
MCNoFile == {ABSENT}
====
