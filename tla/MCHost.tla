------------------------------- MODULE MCHost -------------------------------
(***************************************************************************)
(* The two guest environments over the same file layer.  A host process    *)
(* runs one of them, chosen in the initial state.                          *)
(***************************************************************************)
EXTENDS WASI, Emscripten

VARIABLE environment

hostVars == <<environment, wasiVars, emVars>>
hostView == <<environment, wasiView, emVars>>

emOnly == <<emStatus, emPlatform, pages, top, tables, keys, guards, blocks, wrapped>>
wasiOnly == <<os, fds, lastIndex, hasFS, status, errno, dir, issued, leaked, calls>>

HostInit == /\ environment \in {"WASI", "Emscripten"}
            /\ WASIInit /\ EmInit
            /\ environment = "WASI" => emPlatform = "POSIX"
            /\ environment = "Emscripten" => os.platform = "POSIX"

HostNext ==
    \/ environment = "WASI" /\ WASINext /\ UNCHANGED <<environment, emOnly>>
    \/ environment = "Emscripten" /\ EmNext /\ UNCHANGED <<environment, wasiOnly>>

HostSpec == HostInit /\ [][HostNext]_hostVars

MCRoot == <<"a">>
MCRelative == {<<"a">>, <<".">>, <<"..">>, <<"a", "..">>}
MCRead == {"FD_READ", "FD_SEEK"}
MCWrite == {"FD_WRITE", "FD_SEEK", "FD_FDSTAT_SET_FLAGS", "FD_FILESTAT_SET_SIZE"}
MCDir == {"FD_READDIR", "PATH_OPEN"}
MCRights == {{}, MCRead, {"FD_READDIR"}}
MCRequest(rights, inheriting, openFlags, fdFlags) ==
    [rights |-> rights, inheriting |-> inheriting, openFlags |-> openFlags, fdFlags |-> fdFlags]
MCOpenRequests ==
    {MCRequest(MCRead, {}, {}, {}), MCRequest(MCRead, {}, {"EXCL"}, {}),
     MCRequest(MCWrite, {}, {"CREAT"}, {}), MCRequest(MCWrite, {}, {"CREAT", "EXCL"}, {"APPEND"}),
     MCRequest(MCWrite, {}, {"TRUNC"}, {"DSYNC"}), MCRequest(MCDir, MCDir \cup MCRead, {}, {})}
MCIOVectors == {<<>>, <<2, 1>>}
MCEmVectors == {<<2, 0, 1>>}
=============================================================================
