-------------------------------- MODULE WASI --------------------------------
(***************************************************************************)
(* A WASI process (Lib/WASI): its table of file descriptors, the system    *)
(* calls that use it, and its start and end in WASI::run.  The calls run   *)
(* on one thread, each to completion, so an action is a whole call.        *)
(*                                                                         *)
(*   os        the operating system underneath (module Files);             *)
(*   fds       Process::fds, a partial function from descriptor numbers    *)
(*             to FDE records;                                             *)
(*   lastIndex IndexMap::lastIndex, where the next allocation starts;      *)
(*   status    "start", "running", "exited" (the process is deleted),      *)
(*             "trapped" (a runtime exception left WASI::run, and the      *)
(*             process is never deleted) or "fatal" (the host aborted);    *)
(*   errno     what the last call returned;                                *)
(*   io, dir   ghosts: the last transfer and the last directory read;      *)
(*   issued    ghost: the directory cookies given out for each descriptor; *)
(*   leaked    ghost: handles no object refers to any more.                *)
(***************************************************************************)
EXTENDS Files

CONSTANTS MaxFD,            \* the largest descriptor number; INT32_MAX in the code
          RelativePaths,    \* the relative paths the guest passes
          RequestedRights,  \* the sets of rights the guest narrows a descriptor to
          OpenRequests,     \* the flags and rights the guest opens files with
          IOVectors,        \* the buffer lengths the guest passes to reads and writes
          InitialFiles,     \* the names of the files the sandbox starts with
          FDArgs,           \* the descriptor numbers the guest passes
          MaxCalls          \* bound on the number of calls explored

VARIABLES os, fds, lastIndex, hasFS, status, errno, dir, issued, leaked, calls

wasiVars == <<os, fds, lastIndex, hasFS, status, errno, io, dir, issued, leaked, calls>>

\* No guard and no property reads errno, and the bound on calls is not state.
wasiView == <<os, fds, lastIndex, hasFS, status, io, dir, issued, leaked>>

REGULAR_FILE_RIGHTS ==
    {"FD_DATASYNC", "FD_READ", "FD_SEEK", "FD_FDSTAT_SET_FLAGS", "FD_SYNC", "FD_TELL", "FD_WRITE",
     "FD_ADVISE", "FD_ALLOCATE", "FD_FILESTAT_GET", "FD_FILESTAT_SET_SIZE",
     "FD_FILESTAT_SET_TIMES", "POLL_FD_READWRITE"}

DIRECTORY_RIGHTS ==
    {"FD_FDSTAT_SET_FLAGS", "FD_SYNC", "FD_ADVISE", "PATH_CREATE_DIRECTORY", "PATH_CREATE_FILE",
     "PATH_LINK_SOURCE", "PATH_LINK_TARGET", "PATH_OPEN", "FD_READDIR", "PATH_READLINK",
     "PATH_RENAME_SOURCE", "PATH_RENAME_TARGET", "PATH_FILESTAT_GET", "PATH_FILESTAT_SET_SIZE",
     "PATH_FILESTAT_SET_TIMES", "FD_FILESTAT_GET", "FD_FILESTAT_SET_TIMES", "PATH_SYMLINK",
     "PATH_UNLINK_FILE", "PATH_REMOVE_DIRECTORY", "POLL_FD_READWRITE"}

INHERITING_DIRECTORY_RIGHTS == DIRECTORY_RIGHTS \cup REGULAR_FILE_RIGHTS

stdioRights ==
    {"FD_READ", "FD_FDSTAT_SET_FLAGS", "FD_WRITE", "FD_FILESTAT_GET", "POLL_FD_READWRITE"}

FDE(vfd, rights, inheritingRights, path, isPreopened) ==
    [vfd |-> vfd, rights |-> rights, inheritingRights |-> inheritingRights, path |-> path,
     isPreopened |-> isPreopened, stream |-> NoStream]

asWASIErrNo(result) ==
    LET table == [success |-> "ESUCCESS", ioDeviceError |-> "EIO", notSeekable |-> "ESPIPE",
                  notPermitted |-> "EPERM", notAccessible |-> "EACCES", isDirectory |-> "EISDIR",
                  isNotDirectory |-> "ENOTDIR", isNotEmpty |-> "ENOTEMPTY", alreadyExists |-> "EEXIST",
                  doesNotExist |-> "ENOENT", outOfProcessFDs |-> "EMFILE", invalidOffset |-> "EINVAL",
                  notSynchronizable |-> "EINVAL"]
    IN  table[result]

NoDir == [known |-> FALSE, ok |-> FALSE, got |-> <<>>, due |-> <<>>]

----------------------------------------------------------------------------
\* Allocating a descriptor number: IndexMap::add probes from the number after
\* the last one it gave out.  The table never fills up here, since the system
\* runs out of handles first.
IndexMap_add(last, used) ==
    LET probe(k) == (last + k) % (MaxFD + 1)
    IN  probe(Min({k \in 1..(MaxFD + 1) : probe(k) \notin used}))

validateFD(fd, required, requiredInheriting) ==
    CASE fd \notin 0..MaxFD -> "EBADF"
      [] fd \notin DOMAIN fds -> "EBADF"
      [] ~(required \subseteq fds[fd].rights) -> "ENOTCAPABLE"
      [] ~(requiredInheriting \subseteq fds[fd].inheritingRights) -> "ENOTCAPABLE"
      [] OTHER -> "ESUCCESS"

\* The relative path's components after "." and "..": a ".." with nothing
\* before it to remove makes the whole path invalid.
NoPath == <<"no path">>
getCanonicalPath(base, relative) ==
    LET step(acc, c) == CASE acc = NoPath -> NoPath
                          [] c = ".." -> IF acc = <<>> THEN NoPath ELSE Front(acc)
                          [] c = "." -> acc
                          [] OTHER -> Append(acc, c)
        resolved == FoldLeft(step, <<>>, relative)
    IN  IF resolved = NoPath THEN NoPath ELSE base \o resolved

\* The string is read from guest memory: an out-of-bounds pointer is EFAULT.
Unreadable == <<"unreadable">>
validatePath(fd, required, requiredInheriting, relative) ==
    CASE ~hasFS -> "ENOTCAPABLE"
      [] validateFD(fd, required, requiredInheriting) # "ESUCCESS" ->
            validateFD(fd, required, requiredInheriting)
      [] relative = Unreadable -> "EFAULT"
      [] getCanonicalPath(fds[fd].path, relative) = NoPath -> "ENOTCAPABLE"
      [] OTHER -> "ESUCCESS"

----------------------------------------------------------------------------
\* How a call ends.

Begin == status = "running" /\ calls < MaxCalls /\ calls' = calls + 1

\* The call returns e and has changed nothing.
Return(e) ==
    /\ errno' = e
    /\ io' = NoIO /\ dir' = NoDir
    /\ UNCHANGED <<os, fds, lastIndex, hasFS, status, issued, leaked>>

\* The call's last act is to write its result to guest memory: a bad address
\* throws a runtime exception, which no caller in WASI::run catches.
Finish(o, writesResult) ==
    /\ os' = o.os
    /\ io' = NoIO /\ dir' = NoDir
    /\ UNCHANGED <<lastIndex, hasFS, issued, leaked>>
    /\ \/ o.res = "fatal" /\ status' = "fatal" /\ UNCHANGED errno
       \/ o.res # "fatal" /\ errno' = asWASIErrNo(o.res) /\ UNCHANGED status
       \/ o.res = "success" /\ writesResult /\ status' = "trapped" /\ UNCHANGED errno

\* A call that checks a descriptor's rights and does one operation on its VFD.
OnVFD(fd, required, Op(_, _), writesResult) ==
    LET e == validateFD(fd, required, {})
    IN  /\ Begin
        /\ \/ e # "ESUCCESS" /\ Return(e)
           \/ e = "ESUCCESS" /\ UNCHANGED fds /\ \E o \in Op(os, fds[fd].vfd) : Finish(o, writesResult)

\* Bound: paths are explored up to PathDepth components.
WithinDepth(fd, relative) == Len(getCanonicalPath(fds[fd].path, relative)) <= PathDepth

\* A call that checks a path and does one operation on the file system.
OnPath(fd, relative, required, Op(_, _), writesResult) ==
    LET e == validatePath(fd, required, {}, relative)
    IN  /\ Begin
        /\ \/ e # "ESUCCESS" /\ Return(e)
           \/ /\ e = "ESUCCESS" /\ WithinDepth(fd, relative) /\ UNCHANGED fds
              /\ \E o \in Op(os, getCanonicalPath(fds[fd].path, relative)) : Finish(o, writesResult)

\* UNIMPLEMENTED_SYSCALL, and the calls whose whole body it is.
unimplementedSyscall == Begin /\ Return("ENOSYS")
poll_oneoff == unimplementedSyscall
proc_raise == unimplementedSyscall
sock_calls == unimplementedSyscall
fd_allocate == unimplementedSyscall
path_link == unimplementedSyscall
path_readlink == unimplementedSyscall
path_rename == unimplementedSyscall
path_symlink == unimplementedSyscall

\* The calls that only report to the guest: an argument they refuse, or results
\* written to guest memory, where a bad address traps.
Report(refused, e) ==
    /\ Begin
    /\ \/ refused /\ Return(e)
       \/ ~refused /\ UNCHANGED fds /\ Finish(Done(os), TRUE)
clock_res_get(knownClock) == Report(~knownClock, "EINVAL")
clock_time_get(knownClock) == Report(~knownClock, "EINVAL")
random_get == Report(FALSE, "ESUCCESS")
args_sizes_get(overflows) == Report(overflows, "EOVERFLOW")
args_get(overflows) == Report(overflows, "EOVERFLOW")
environ_sizes_get(overflows) == Report(overflows, "EOVERFLOW")
environ_get(overflows) == Report(overflows, "EOVERFLOW")
sched_yield == Begin /\ Return("ESUCCESS")

----------------------------------------------------------------------------
\* Start and end of the process.

\* WASI::run up to the call of _start.  Failing to open the root is fatal.
run(withFS) ==
    /\ status = "start"
    /\ hasFS' = withFS
    /\ UNCHANGED <<lastIndex, errno, io, dir, leaked, calls>>
    /\ LET stdio == [fd \in StdHandles |-> FDE(fd, stdioRights, {}, <<"dev">>, FALSE)]
       IN  IF ~withFS THEN fds' = stdio /\ status' = "running" /\ UNCHANGED os
           ELSE \E o \in FS_open(os, <<>>, {}, "openExisting", NoFlags) :
                    /\ os' = o.os
                    /\ fds' = stdio @@ (3 :> FDE(Min(KFree(os)), DIRECTORY_RIGHTS,
                                                 INHERITING_DIRECTORY_RIGHTS, <<>>, TRUE))
                    /\ status' = IF o.res = "success" THEN "running" ELSE "fatal"
    /\ issued' = [fd \in DOMAIN fds' |-> {0}]


\* FDE::close: the directory stream is closed only when the VFD was.
FDE_close(system, fde) ==
    {IF o.res = "success" THEN [o EXCEPT !.os = DirEntStream_close(@, fde.stream)] ELSE o :
        o \in VFD_close(system, fde.vfd)}

OwnedBy(fde) == {fde.vfd, fde.stream.h} \ {h \in DOMAIN os.open \cup {NoStream.h} :
                                                h = NoStream.h \/ os.open[h].std}

\* proc_exit throws ExitException, which WASI::run catches; returning from
\* _start takes the same path.  ~Process closes every descriptor and ignores
\* the ones whose close fails.
proc_exit ==
    /\ status = "running"
    /\ \E failing \in SUBSET {fd \in DOMAIN fds : OwnedBy(fds[fd]) # {}} :
          LET closed == UNION {OwnedBy(fds[fd]) : fd \in DOMAIN fds \ failing}
          IN  /\ os' = [os EXCEPT !.open = Restrict(@, DOMAIN @ \ closed)]
              /\ leaked' = leaked \cup UNION {OwnedBy(fds[fd]) : fd \in failing}
    /\ fds' = << >> /\ status' = "exited" /\ issued' = << >>
    /\ io' = NoIO /\ dir' = NoDir
    /\ UNCHANGED <<lastIndex, hasFS, errno, calls>>

----------------------------------------------------------------------------
\* Calls on descriptors.

fd_prestat_get(fd) == OnVFD(fd, {}, LAMBDA s, h : {Done(s)}, TRUE)

fd_prestat_dir_name(fd, length) ==
    LET e == validateFD(fd, {}, {})
    IN  /\ Begin
        /\ \/ e # "ESUCCESS" /\ Return(e)
           \/ e = "ESUCCESS" /\ ~fds[fd].isPreopened /\ Return("EBADF")
           \/ e = "ESUCCESS" /\ fds[fd].isPreopened /\ length # Len(fds[fd].path) /\ Return("EINVAL")
           \/ /\ e = "ESUCCESS" /\ fds[fd].isPreopened /\ length = Len(fds[fd].path)
              /\ UNCHANGED fds /\ Finish(Done(os), TRUE)

fd_close(fd) ==
    LET e == validateFD(fd, {}, {})
    IN  /\ Begin
        /\ \/ e # "ESUCCESS" /\ Return(e)
           \/ e = "ESUCCESS" /\ fds[fd].isPreopened /\ Return("EBADF")
           \/ /\ e = "ESUCCESS" /\ ~fds[fd].isPreopened
              /\ \E o \in FDE_close(os, fds[fd]) :
                    LET kept == IF o.res = "success" THEN DOMAIN fds \ {fd} ELSE DOMAIN fds
                    IN  /\ fds' = Restrict(fds, kept) /\ issued' = Restrict(issued, kept)
                        /\ os' = o.os /\ errno' = asWASIErrNo(o.res)
              /\ io' = NoIO /\ dir' = NoDir
              /\ UNCHANGED <<lastIndex, hasFS, status, leaked>>

\* Once the target is closed, inserting at its number finds the number taken
\* and aborts the host.
fd_renumber(from, to) ==
    LET eFrom == validateFD(from, {}, {})
        eTo == validateFD(to, {}, {})
    IN  /\ Begin
        /\ \/ eFrom # "ESUCCESS" /\ Return(eFrom)
           \/ eFrom = "ESUCCESS" /\ eTo # "ESUCCESS" /\ Return(eTo)
           \/ /\ eFrom = "ESUCCESS" /\ eTo = "ESUCCESS"
              /\ fds[from].isPreopened \/ fds[to].isPreopened
              /\ Return("ENOTSUP")
           \/ /\ eFrom = "ESUCCESS" /\ eTo = "ESUCCESS"
              /\ ~fds[from].isPreopened /\ ~fds[to].isPreopened
              /\ UNCHANGED fds
              /\ \E o \in FDE_close(os, fds[to]) :
                    Finish(IF o.res = "success" THEN [o EXCEPT !.res = "fatal"] ELSE o, FALSE)

fd_datasync(fd) == OnVFD(fd, {"FD_DATASYNC"}, VFD_sync, FALSE)
fd_sync(fd) == OnVFD(fd, {"FD_SYNC"}, VFD_sync, FALSE)
fd_tell(fd) == OnVFD(fd, {"FD_TELL"}, VFD_seek, TRUE)
fd_fdstat_get(fd) == OnVFD(fd, {}, VFD_getVFDInfo, TRUE)
fd_filestat_get(fd) == OnVFD(fd, {"FD_FILESTAT_GET"}, VFD_getFileInfo, TRUE)
fd_filestat_set_times(fd) == OnVFD(fd, {"FD_FILESTAT_SET_TIMES"}, VFD_setFileTimes, FALSE)
fd_filestat_set_size(fd) == OnVFD(fd, {"FD_FILESTAT_SET_SIZE"}, VFD_setFileSize, FALSE)

\* The whence and the advice are checked after the descriptor.
fd_seek(fd, validWhence) ==
    OnVFD(fd, {"FD_SEEK"},
          LAMBDA s, h : IF validWhence THEN VFD_seek(s, h) ELSE {[res |-> "invalidOffset", os |-> s]}, TRUE)

fd_advise(fd, validAdvice) ==
    OnVFD(fd, {"FD_ADVISE"},
          LAMBDA s, h : {IF validAdvice THEN Done(s) ELSE [res |-> "invalidOffset", os |-> s]}, FALSE)

\* readImpl and writeImpl: the vectors are read from guest memory (EFAULT), too
\* many are EINVAL, and the byte count is written back whatever the result.
Transfer(fd, right, lens, hasOffset, readable, Op(_, _, _, _)) ==
    LET e == validateFD(fd, {right} \cup (IF hasOffset THEN {"FD_SEEK"} ELSE {}), {})
        stop == [res |-> "stop", os |-> os, moved |-> <<>>, count |-> 0]
        outcomes == IF e # "ESUCCESS" \/ ~readable THEN {stop} ELSE Op(os, fds[fd].vfd, lens, hasOffset)
    IN  /\ Begin
        /\ \E o \in outcomes :
              /\ os' = o.os
              /\ io' = [lens |-> lens, moved |-> o.moved, count |-> o.count, ok |-> o.res = "success"]
              /\ \/ /\ errno' = CASE e # "ESUCCESS" -> e
                                  [] ~readable -> "EFAULT"
                                  [] OTHER -> asWASIErrNo(o.res)
                    /\ UNCHANGED status
                 \/ status' = "trapped" /\ UNCHANGED errno
        /\ dir' = NoDir
        /\ UNCHANGED <<fds, lastIndex, hasFS, issued, leaked>>

readImpl(fd, lens, hasOffset, readable) == Transfer(fd, "FD_READ", lens, hasOffset, readable, VFD_readv)
writeImpl(fd, lens, hasOffset, readable) == Transfer(fd, "FD_WRITE", lens, hasOffset, readable, VFD_writev)

fd_read(fd, lens, readable) == readImpl(fd, lens, FALSE, readable)
fd_pread(fd, lens, readable) == readImpl(fd, lens, TRUE, readable)
fd_write(fd, lens, readable) == writeImpl(fd, lens, FALSE, readable)
fd_pwrite(fd, lens, readable) == writeImpl(fd, lens, TRUE, readable)

\* The flags a WASI flag set stands for, and the rights it requires.
translateWASIVFDFlags(flags) ==
    [append |-> "APPEND" \in flags, nonBlocking |-> "NONBLOCK" \in flags,
     sync |-> CASE "SYNC" \in flags /\ "RSYNC" \in flags -> "contentsAndMetadataBeforeRead"
                [] "SYNC" \in flags -> "contentsAndMetadata"
                [] "DSYNC" \in flags /\ "RSYNC" \in flags -> "contentsBeforeRead"
                [] "DSYNC" \in flags -> "contents"
                [] OTHER -> "none"]
rightsForFlags(flags) ==
    (IF "DSYNC" \in flags THEN {"FD_DATASYNC"} ELSE {}) \cup (IF "SYNC" \in flags THEN {"FD_SYNC"} ELSE {})

\* The rights the flags require are added to an uninitialised variable, so any
\* right may be required besides.
fd_fdstat_set_flags(fd, flags) ==
    \E garbage \in {{}, INHERITING_DIRECTORY_RIGHTS} :
        LET e == validateFD(fd, {"FD_FDSTAT_SET_FLAGS"} \cup garbage \cup rightsForFlags(flags), {})
        IN  /\ Begin
            /\ \/ e # "ESUCCESS" /\ Return(e)
               \/ /\ e = "ESUCCESS"
                  /\ \E o \in VFD_setVFDFlags(os, fds[fd].vfd, translateWASIVFDFlags(flags)) :
                        fds' = [fds EXCEPT ![fd].vfd = o.h] /\ Finish(o, FALSE)

fd_fdstat_set_rights_Unchecked(fd, rights, inheritingRights) ==
    /\ Begin /\ fd \in DOMAIN fds
    /\ fds' = [fds EXCEPT ![fd].rights = rights, ![fd].inheritingRights = inheritingRights]
    /\ Finish(Done(os), FALSE)

fd_fdstat_set_rights(fd, rights, inheritingRights) ==
    LET e == validateFD(fd, rights, inheritingRights)
    IN  /\ Begin
        /\ \/ e # "ESUCCESS" /\ Return(e)
           \/ /\ e = "ESUCCESS"
              /\ fds' = [fds EXCEPT ![fd].rights = rights, ![fd].inheritingRights = inheritingRights]
              /\ Finish(Done(os), FALSE)

----------------------------------------------------------------------------
\* fd_readdir.  The buffer's size is measured in half entries: the header and
\* name of the last entry may not fit, but the stream has moved past it.

ReadEntries(system, stream, n) ==
    LET step(s, k) == DirEntStream_tell(system, DirEntStream_getNext(system, s))
    IN  FoldLeft(step, stream, [i \in 1..n |-> i])

fd_readdir(fd, halves, cookie) ==
    LET e == validateFD(fd, {"FD_READDIR"}, {})
        fresh == fds[fd].stream = NoStream
        told == DirEntStream_tell(os, fds[fd].stream)
        Refuse(opened, res) ==
            /\ os' = opened
            /\ leaked' = leaked \cup (DOMAIN opened.open \ DOMAIN os.open)
            /\ dir' = [NoDir EXCEPT !.known = ~fresh /\ cookie \in issued[fd]]
            /\ io' = NoIO /\ UNCHANGED <<fds, lastIndex, hasFS, issued>>
            /\ \/ res = "fatal" /\ status' = "fatal" /\ UNCHANGED errno
               \/ res # "fatal" /\ errno' = asWASIErrNo(res) /\ UNCHANGED status
        Deliver(opened, stream) ==
            LET wanted == (halves + 1) \div 2
                after == ReadEntries(opened, stream, wanted)
                whole == Min({halves \div 2, after.pos - stream.pos})
            IN  /\ os' = opened
                /\ fds' = [fds EXCEPT ![fd].stream = after]
                /\ issued' = [issued EXCEPT ![fd] = @ \cup (stream.pos + 1)..(stream.pos + whole)]
                /\ dir' = [known |-> cookie \in issued[fd], ok |-> TRUE,
                           got |-> SubSeq(after.entries, stream.pos + 1, stream.pos + whole),
                           due |-> SubSeq(after.entries, cookie + 1, Min({cookie + halves \div 2, Len(after.entries)}))]
                /\ io' = NoIO /\ UNCHANGED <<lastIndex, hasFS, leaked>>
                /\ \/ errno' = "ESUCCESS" /\ UNCHANGED status
                   \/ status' = "trapped" /\ UNCHANGED errno
    IN  /\ Begin
        /\ \/ e # "ESUCCESS" /\ Return(e)
           \/ e = "ESUCCESS" /\ fresh /\ cookie # 0 /\ Return("EINVAL")
           \/ /\ e = "ESUCCESS" /\ fresh /\ cookie = 0
              /\ \E o \in VFD_openDir(os, fds[fd].vfd) :
                    IF o.res = "success" THEN Deliver(o.os, o.stream) ELSE Refuse(o.os, o.res)
           \/ /\ e = "ESUCCESS" /\ ~fresh
              /\ IF told.pos = cookie THEN Deliver(os, told)
                 ELSE IF DirEntStream_canSeek(os, told, cookie) THEN Deliver(os, [told EXCEPT !.pos = cookie])
                 ELSE Refuse(os, "invalidOffset")

----------------------------------------------------------------------------
\* Calls on paths.

wantsRead(rights) == rights \cap {"FD_READ", "FD_READDIR"} # {}
wantsWrite_OnlyData(rights) == rights \cap {"FD_DATASYNC", "FD_ALLOCATE"} # {}
wantsWrite(rights) ==
    rights \cap {"FD_DATASYNC", "FD_WRITE", "FD_ALLOCATE", "FD_FILESTAT_SET_SIZE"} # {}
accessMode(rights) ==
    (IF wantsRead(rights) THEN {"read"} ELSE {}) \cup (IF wantsWrite(rights) THEN {"write"} ELSE {})
createMode(flags) ==
    CASE flags = {"CREAT", "EXCL"} -> "createNew"
      [] flags = {"CREAT", "TRUNC"} -> "createAlways"
      [] flags = {"CREAT"} -> "openAlways"
      [] flags = {"TRUNC"} -> "truncateExisting"
      [] flags = {} -> "openExisting"
      [] OTHER -> "undefined"

\* The rights path_open requires its directory to have and to pass on.
openDirRights(openFlags) ==
    {"PATH_OPEN"} \cup (IF "CREAT" \in openFlags THEN {"PATH_CREATE_FILE"} ELSE {})
                  \cup (IF "TRUNC" \in openFlags THEN {"PATH_FILESTAT_SET_SIZE"} ELSE {})
openInheritingRights(rights, inheriting, openFlags, fdFlags) ==
    rights \cup inheriting \cup rightsForFlags(fdFlags)
    \cup (IF wantsWrite(rights) /\ "APPEND" \notin fdFlags /\ "TRUNC" \notin openFlags
            THEN {"FD_SEEK"} ELSE {})

path_open(fd, relative, openFlags, rights, inheriting, fdFlags) ==
    LET e == validatePath(fd, openDirRights(openFlags),
                          openInheritingRights(rights, inheriting, openFlags, fdFlags), relative)
        path == getCanonicalPath(fds[fd].path, relative)
        new == IndexMap_add(lastIndex, DOMAIN fds)
    IN  /\ Begin
        /\ \/ createMode(openFlags) = "undefined" /\ Return("EINVAL")
           \/ createMode(openFlags) # "undefined" /\ e # "ESUCCESS" /\ Return(e)
           \/ /\ createMode(openFlags) # "undefined" /\ e = "ESUCCESS" /\ WithinDepth(fd, relative)
              /\ io' = NoIO /\ dir' = NoDir /\ UNCHANGED <<hasFS, leaked>>
              /\ \E o \in FS_open(os, path, accessMode(rights), createMode(openFlags),
                                  translateWASIVFDFlags(fdFlags)) :
                    /\ os' = o.os
                    /\ IF o.res # "success"
                         THEN /\ UNCHANGED <<fds, lastIndex, issued>>
                              /\ \/ o.res = "fatal" /\ status' = "fatal" /\ UNCHANGED errno
                                 \/ o.res # "fatal" /\ errno' = asWASIErrNo(o.res) /\ UNCHANGED status
                         ELSE /\ fds' = fds @@ (new :> FDE(Min(KFree(os)), rights, inheriting, path, FALSE))
                              /\ issued' = issued @@ (new :> {0})
                              /\ lastIndex' = new
                              /\ \/ errno' = "ESUCCESS" /\ UNCHANGED status
                                 \/ status' = "trapped" /\ UNCHANGED errno

path_filestat_get(fd, relative) ==
    OnPath(fd, relative, {"PATH_FILESTAT_GET"}, FS_getFileInfo, TRUE)
path_filestat_set_times(fd, relative) ==
    OnPath(fd, relative, {"PATH_FILESTAT_SET_TIMES"}, FS_setFileTimes, FALSE)

\* Unlinking a directory is reported as EPERM.
path_unlink_file(fd, relative) ==
    OnPath(fd, relative, {"PATH_UNLINK_FILE"},
           LAMBDA s, p : {IF o.res = "isDirectory" THEN [o EXCEPT !.res = "notPermitted"] ELSE o :
                              o \in FS_unlinkFile(s, p)}, FALSE)
path_remove_directory(fd, relative) ==
    OnPath(fd, relative, {"PATH_REMOVE_DIRECTORY"}, FS_removeDir, FALSE)
path_create_directory(fd, relative) ==
    OnPath(fd, relative, {"PATH_CREATE_DIRECTORY"}, FS_createDir, FALSE)

----------------------------------------------------------------------------
WASIInit ==
    /\ \E platform \in {"POSIX", "Windows"} :
          os = StdSystem(platform, [p \in Paths |->
                  CASE IsPrefix(p, SandboxRoot) -> "dir"
                    [] p \in {SandboxRoot \o <<n>> : n \in InitialFiles} -> "file"
                    [] OTHER -> "none"])
    /\ fds = << >> /\ issued = << >> /\ leaked = {}
    /\ lastIndex = MaxFD        \* minIndex - 1: the first number tried is 0
    /\ hasFS = FALSE /\ status = "start" /\ errno = "ESUCCESS"
    /\ io = NoIO /\ dir = NoDir /\ calls = 0

WASINext ==
    \/ \E b \in BOOLEAN : run(b)
    \/ proc_exit
    \/ poll_oneoff \/ proc_raise \/ sock_calls \/ fd_allocate \/ path_link \/ path_readlink
    \/ path_rename \/ path_symlink \/ random_get \/ sched_yield
    \/ \E b \in BOOLEAN :
          \/ clock_res_get(b) \/ clock_time_get(b) \/ args_sizes_get(b) \/ args_get(b)
          \/ environ_sizes_get(b) \/ environ_get(b)
    \/ \E fd \in FDArgs :
          \/ fd_prestat_get(fd) \/ fd_close(fd) \/ fd_datasync(fd) \/ fd_sync(fd) \/ fd_tell(fd)
          \/ fd_fdstat_get(fd) \/ fd_filestat_get(fd) \/ fd_filestat_set_times(fd)
          \/ fd_filestat_set_size(fd)
          \/ \E n \in 0..1 : fd_prestat_dir_name(fd, n)
          \/ \E b \in BOOLEAN : fd_seek(fd, b) \/ fd_advise(fd, b)
          \/ \E to \in FDArgs : fd_renumber(fd, to)
          \/ \E lens \in IOVectors, b \in BOOLEAN :
                fd_read(fd, lens, b) \/ fd_pread(fd, lens, b) \/ fd_write(fd, lens, b) \/ fd_pwrite(fd, lens, b)
          \/ \E flags \in {{}, {"APPEND"}, {"DSYNC"}, {"SYNC", "RSYNC"}} : fd_fdstat_set_flags(fd, flags)
          \/ \E rights \in RequestedRights : fd_fdstat_set_rights(fd, rights, rights)
          \/ \E halves \in 0..3, cookie \in 0..2 : fd_readdir(fd, halves, cookie)
          \/ \E relative \in RelativePaths \cup {Unreadable} :
                \/ path_filestat_get(fd, relative) \/ path_filestat_set_times(fd, relative)
                \/ path_unlink_file(fd, relative) \/ path_remove_directory(fd, relative)
                \/ path_create_directory(fd, relative)
                \/ \E r \in OpenRequests :
                        path_open(fd, relative, r.openFlags, r.rights, r.inheriting, r.fdFlags)

WASISpec == WASIInit /\ [][WASINext]_wasiVars

----------------------------------------------------------------------------

\* A descriptor the guest opened has the access its rights need: the kernel
\* never refuses, and setFileSize never meets the EINVAL that aborts the host,
\* after validateFD allowed the call.  (path_open's access mode, setVFDFlags.)
RightsAreBacked ==
    \A fd \in DOMAIN fds :
        (fds[fd].vfd \in DOMAIN os.open /\ ~os.open[fds[fd].vfd].std /\ ~fds[fd].isPreopened) =>
            /\ fds[fd].rights \cap {"FD_READ", "FD_READDIR"} # {} =>
                    "read" \in os.open[fds[fd].vfd].access
            /\ fds[fd].rights \cap {"FD_WRITE", "FD_FILESTAT_SET_SIZE"} # {} =>
                    "write" \in os.open[fds[fd].vfd].access

\* Authority only shrinks: a call leaves a descriptor with the rights and path
\* it had or fewer rights, and a new descriptor has only rights some directory
\* descriptor passes on and a path below that directory's, and the handle under
\* it is a file of the sandbox.  (path_open, getCanonicalPath,
\* fd_fdstat_set_rights, SandboxFS.)
AuthorityOnlyNarrows ==
    [][status = "running" =>
        \A fd \in DOMAIN fds' :
            IF fd \in DOMAIN fds
            THEN /\ fds'[fd].rights \subseteq fds[fd].rights
                 /\ fds'[fd].inheritingRights \subseteq fds[fd].inheritingRights
                 /\ fds'[fd].path = fds[fd].path
            ELSE /\ IsPrefix(SandboxRoot, os'.open[fds'[fd].vfd].path)
                 /\ \E d \in DOMAIN fds :
                       /\ fds'[fd].rights \cup fds'[fd].inheritingRights \subseteq fds[d].inheritingRights
                       /\ "PATH_OPEN" \in fds[d].rights
                       /\ IsPrefix(fds[d].path, fds'[fd].path)]_wasiVars

\* A directory read that starts from a cookie an earlier read of the same
\* descriptor returned is never refused, and delivers exactly the entries after
\* the one that cookie came with, in order.  (fd_readdir, tell and seek of the
\* two stream classes.)
CookiesResume == dir.known => dir.ok /\ dir.got = dir.due

\* wavmAssert(numBytesWritten <= WASIADDRESS_MAX) of the four transfer calls.
ReportedCountFits == io.count < WrappedCount
=============================================================================
