------------------------------- MODULE Files -------------------------------
(***************************************************************************)
(* The platform file layer under the virtual file system: VFS::VFD,        *)
(* VFS::DirEntStream and VFS::FileSystem as implemented by FilePOSIX.cpp   *)
(* and FileWindows.cpp, and the SandboxFS that prefixes every path.        *)
(*                                                                         *)
(* The operating system is external.  It is one record:                    *)
(*   platform  "POSIX" or "Windows": which of the two files is compiled;   *)
(*   tree      what each path names: "none", "file" or "dir";              *)
(*   open      the open file handles, a partial function from numbers.     *)
(* Every operation that can change it or fail is an operator that returns  *)
(* the SET of its possible outcomes, records with a VFS result in "res"    *)
(* and the new system in "os".  Contents and offsets of files are left to  *)
(* the system: a transfer moves any number of bytes up to what was asked.  *)
(***************************************************************************)
EXTENDS Naturals, Sequences, FiniteSets, SequencesExt

CONSTANTS
    Names,                  \* the names a directory entry can have
    PathDepth,              \* the longest path, in components
    MaxHandle,              \* the process's limit on open handles
    SandboxRoot,            \* the path the sandbox is rooted at
    CloseFailureReleases    \* TRUE iff a close() that fails has released the
                            \* handle all the same (Linux); see README

VARIABLE io     \* ghost: the last transfer a guest asked for, and what it moved

StdHandles == 0..2
Handles == 0..MaxHandle
Paths == UNION {[1..n -> Names] : n \in 0..(PathDepth + Len(SandboxRoot))}
SyncLevels == {"none", "contents", "contentsAndMetadata",
               "contentsBeforeRead", "contentsAndMetadataBeforeRead"}
NoFlags == [append |-> FALSE, nonBlocking |-> FALSE, sync |-> "none"]
Done(os) == [res |-> "success", os |-> os]

----------------------------------------------------------------------------
\* The external system.

KFree(os) == Handles \ DOMAIN os.open
KOpened(os, node) == [os EXCEPT !.open = (Min(KFree(os)) :> node) @@ @]
KClosed(os, h) == [os EXCEPT !.open = Restrict(@, DOMAIN @ \ {h})]
KChildren(os, p) == {n \in Names : Append(p, n) \in Paths /\ os.tree[Append(p, n)] # "none"}

\* Why opening a path fails, or "none".
KOpenCause(os, p, access, create) ==
    CASE p # <<>> /\ os.tree[Front(p)] = "none" -> "missing"
      [] p # <<>> /\ os.tree[Front(p)] = "file" -> "notDirectory"
      [] create = "createNew" /\ os.tree[p] # "none" -> "fileExists"
      [] create \in {"openExisting", "truncateExisting"} /\ os.tree[p] = "none" -> "missing"
      [] os.tree[p] = "dir" /\ ("write" \in access \/ create # "openExisting") -> "isDirectory"
      [] KFree(os) = {} -> "outOfHandles"
      [] OTHER -> "none"

\* The native error each cause is reported as.
KNativeError ==
    [missing      |-> [POSIX |-> "ENOENT",    Windows |-> "ERROR_PATH_NOT_FOUND"],
     exists       |-> [POSIX |-> "EEXIST",    Windows |-> "ERROR_ALREADY_EXISTS"],
     fileExists   |-> [POSIX |-> "EEXIST",    Windows |-> "ERROR_FILE_EXISTS"],
     notDirectory |-> [POSIX |-> "ENOTDIR",   Windows |-> "ERROR_DIRECTORY"],
     isDirectory  |-> [POSIX |-> "EISDIR",    Windows |-> "ERROR_ACCESS_DENIED"],
     notEmpty     |-> [POSIX |-> "ENOTEMPTY", Windows |-> "ERROR_DIR_NOT_EMPTY"],
     outOfHandles |-> [POSIX |-> "EMFILE",    Windows |-> "ERROR_NO_SYSTEM_RESOURCES"],
     io           |-> [POSIX |-> "EIO",       Windows |-> "ERROR_IO_DEVICE"],
     invalid      |-> [POSIX |-> "EINVAL",    Windows |-> "ERROR_INVALID_PARAMETER"],
     notSeekable  |-> [POSIX |-> "ESPIPE",    Windows |-> "ERROR_INVALID_FUNCTION"]]

----------------------------------------------------------------------------
\* asVFSResult: an error code the switch does not list is a fatal error of the
\* host process, and so are EINVAL, EBADF and their Windows counterparts.

asVFSResultPOSIX(error) ==
    LET table == [ESPIPE |-> "notSeekable", EIO |-> "ioDeviceError", EISDIR |-> "isDirectory",
                  EMFILE |-> "outOfProcessFDs", ENOTDIR |-> "isNotDirectory",
                  EEXIST |-> "alreadyExists", ENOENT |-> "doesNotExist",
                  ENOTEMPTY |-> "isNotEmpty", EINTR |-> "interruptedBySignal"]
    IN  IF error \in DOMAIN table THEN table[error] ELSE "fatal"

asVFSResultWindows(error) ==
    LET table == [ERROR_IO_DEVICE |-> "ioDeviceError", ERROR_PATH_NOT_FOUND |-> "doesNotExist",
                  ERROR_ACCESS_DENIED |-> "notAccessible", ERROR_DIRECTORY |-> "isNotDirectory",
                  ERROR_INVALID_FUNCTION |-> "notPermitted",
                  ERROR_ALREADY_EXISTS |-> "alreadyExists", ERROR_DIR_NOT_EMPTY |-> "isNotEmpty"]
    IN  IF error \in DOMAIN table THEN table[error] ELSE "fatal"

asVFSResult(os, cause) ==
    IF os.platform = "POSIX" THEN asVFSResultPOSIX(KNativeError[cause].POSIX)
                             ELSE asVFSResultWindows(KNativeError[cause].Windows)

Failed(os, cause) == [res |-> asVFSResult(os, cause), os |-> os]

----------------------------------------------------------------------------
\* Virtual file descriptors.  A VFD is its handle number.

\* An EINTR from close() counts as success; any other failure is reported and
\* the VFD object stays.
POSIXFD_close(os, h) ==
    {Done(KClosed(os, h)),
     Failed(IF CloseFailureReleases THEN KClosed(os, h) ELSE os, "io")}

WindowsFD_close(os, h) == {Done(KClosed(os, h)), Failed(os, "io")}

\* The stdio VFDs are shared between processes: closing one does nothing.
StdFD_close(os, h) == {Done(os)}

VFD_close(os, h) ==
    CASE os.open[h].std -> StdFD_close(os, h)
      [] os.platform = "POSIX" -> POSIXFD_close(os, h)
      [] OTHER -> WindowsFD_close(os, h)

\* seek: EINVAL is the caller's offset; a pipe is not seekable.
POSIXFD_seek(os, h) ==
    {Done(os), [res |-> "invalidOffset", os |-> os], Failed(os, "notSeekable")}

WindowsFD_seek(os, h) ==
    {Done(os), [res |-> "invalidOffset", os |-> os], Failed(os, "notSeekable")}

VFD_seek(os, h) == IF os.platform = "POSIX" THEN POSIXFD_seek(os, h) ELSE WindowsFD_seek(os, h)

Total(lens) == FoldSeq(LAMBDA a, b: a + b, 0, lens)

Scatter_WholeBuffers(lens, n) ==
    [i \in 1..Len(lens) |-> IF Total(SubSeq(lens, 1, i - 1)) >= n THEN 0 ELSE lens[i]]

\* The bytes of an n-byte transfer each buffer receives, in order, when a
\* combined buffer is copied out to them.
Scatter(lens, n) ==
    [i \in 1..Len(lens) |->
        LET before == Total(SubSeq(lens, 1, i - 1))
        IN  IF before >= n THEN 0 ELSE Min({lens[i], n - before})]

NoIO == [lens |-> <<>>, moved |-> <<>>, count |-> 0, ok |-> FALSE]

IO(os, cause, moved, count) ==
    [res |-> IF cause = "none" THEN "success" ELSE asVFSResult(os, cause),
     os |-> os, moved |-> moved, count |-> count]

\* readv without an offset scatters in the kernel; with one it reads into a
\* combined buffer and copies out.  Nothing is reported read on an error.
POSIXFD_readv(os, h, lens, hasOffset) ==
    IF lens = <<>> THEN {IO(os, "none", <<>>, 0)}
    ELSE {IO(os, "none", Scatter(lens, n), n) : n \in 0..Total(lens)}
         \cup {IO(os, IF hasOffset /\ h \in StdHandles THEN "notSeekable" ELSE "io",
                  Scatter(lens, 0), 0)}

\* The count reported when pwrite fails is Uptr(-1), which the caller truncates.
WrappedCount == 1000
POSIXFD_writev(os, h, lens, hasOffset) ==
    IF lens = <<>> THEN {IO(os, "none", <<>>, 0)}
    ELSE {IO(os, "none", Scatter(lens, n), n) : n \in 0..Total(lens)}
         \cup {IO(os, IF hasOffset /\ h \in StdHandles THEN "notSeekable" ELSE "io",
                  Scatter(lens, 0), IF hasOffset THEN WrappedCount ELSE 0)}

\* A level that syncs before reads flushes first; the flush can fail.  One
\* buffer is read into directly, several through a combined buffer.
WindowsFD_readv(os, h, lens, hasOffset) ==
    IF lens = <<>> THEN {IO(os, "none", <<>>, 0)}
    ELSE {IO(os, "none", IF Len(lens) = 1 THEN <<n>> ELSE Scatter(lens, n), n) : n \in 0..Total(lens)}
         \cup {IO(os, "io", Scatter(lens, 0), 0)}

\* A level other than none flushes after the write: when that flush fails the
\* bytes are written but none are reported.
WindowsFD_writev(os, h, lens, hasOffset) ==
    IF lens = <<>> THEN {IO(os, "none", <<>>, 0)}
    ELSE {IO(os, "none", Scatter(lens, n), n) : n \in 0..Total(lens)}
         \cup {IO(os, "io", Scatter(lens, 0), 0)}
         \cup {IO(os, "io", Scatter(lens, n), 0) :
                    n \in IF os.open[h].flags.sync = "none" THEN {} ELSE 0..Total(lens)}

VFD_readv(os, h, lens, hasOffset) ==
    IF os.platform = "POSIX" THEN POSIXFD_readv(os, h, lens, hasOffset)
                             ELSE WindowsFD_readv(os, h, lens, hasOffset)
VFD_writev(os, h, lens, hasOffset) ==
    IF os.platform = "POSIX" THEN POSIXFD_writev(os, h, lens, hasOffset)
                             ELSE WindowsFD_writev(os, h, lens, hasOffset)

\* sync: EINVAL from fsync means the descriptor cannot be synchronised.
POSIXFD_sync(os, h) == {Done(os), [res |-> "notSynchronizable", os |-> os], Failed(os, "io")}
WindowsFD_sync(os, h) == {Done(os), Failed(os, "io")}
VFD_sync(os, h) == IF os.platform = "POSIX" THEN POSIXFD_sync(os, h) ELSE WindowsFD_sync(os, h)

\* getVFDInfo.  On Linux O_DSYNC is a bit of O_SYNC and O_RSYNC equals O_SYNC,
\* so the two tests of the code find every level but "none" to be the strongest.
POSIXFD_getVFDInfo(os, h) ==
    {Failed(os, "io"),
     [res |-> "success", os |-> os,
      flags |-> [os.open[h].flags EXCEPT
                    !.sync = IF @ = "none" THEN "none" ELSE "contentsAndMetadataBeforeRead"]]}
WindowsFD_getVFDInfo(os, h) ==
    {Failed(os, "io"), [res |-> "success", os |-> os, flags |-> os.open[h].flags]}
VFD_getVFDInfo(os, h) ==
    IF os.platform = "POSIX" THEN POSIXFD_getVFDInfo(os, h) ELSE WindowsFD_getVFDInfo(os, h)

\* setVFDFlags.  F_SETFL changes the append and non-blocking flags and leaves
\* the sync flags of the open file alone.
POSIXFD_setVFDFlags(os, h, flags) ==
    {[res |-> "success", h |-> h,
      os |-> [os EXCEPT !.open[h].flags = [flags EXCEPT !.sync = os.open[h].flags.sync]]],
     [res |-> asVFSResult(os, "io"), h |-> h, os |-> os]}

\* On Windows a writable handle whose append flag changes is reopened: the new
\* handle replaces the old one, which is closed; a failure leaves it in place.
WindowsFD_setVFDFlags(os, h, flags) ==
    LET node == os.open[h]
        reopen == "write" \in node.access /\ node.flags.append # flags.append
        reopened == KOpened(os, [node EXCEPT !.flags = flags])
    IN  IF ~reopen THEN {[res |-> "success", h |-> h,
                          os |-> [os EXCEPT !.open[h].flags =
                                    [flags EXCEPT !.append = node.flags.append]]]}
        ELSE {[res |-> asVFSResult(os, "io"), h |-> h, os |-> os]}
             \cup IF KFree(os) = {} THEN {}
                  ELSE {[res |-> "success", h |-> Min(KFree(os)), os |-> KClosed(reopened, h)]}

VFD_setVFDFlags(os, h, flags) ==
    IF os.platform = "POSIX" THEN POSIXFD_setVFDFlags(os, h, flags)
                             ELSE WindowsFD_setVFDFlags(os, h, flags)

\* setFileSize: truncating a handle that is not open for writing is EINVAL,
\* which asVFSResult makes fatal.
POSIXFD_setFileSize(os, h) ==
    IF "write" \in os.open[h].access THEN {Done(os), Failed(os, "io")} ELSE {Failed(os, "invalid")}
WindowsFD_setFileSize(os, h) == {Done(os), Failed(os, "io")}
VFD_setFileSize(os, h) ==
    IF os.platform = "POSIX" THEN POSIXFD_setFileSize(os, h) ELSE WindowsFD_setFileSize(os, h)

POSIXFD_setFileTimes(os, h) == {Done(os), Failed(os, "io")}
WindowsFD_setFileTimes(os, h) == {Done(os), Failed(os, "io")}
VFD_setFileTimes(os, h) ==
    IF os.platform = "POSIX" THEN POSIXFD_setFileTimes(os, h) ELSE WindowsFD_setFileTimes(os, h)

POSIXFD_getFileInfo(os, h) == {Done(os), Failed(os, "io")}
WindowsFD_getFileInfo(os, h) == {Done(os), Failed(os, "io")}
VFD_getFileInfo(os, h) ==
    IF os.platform = "POSIX" THEN POSIXFD_getFileInfo(os, h) ELSE WindowsFD_getFileInfo(os, h)

----------------------------------------------------------------------------
\* Directory streams.  "valid" is maxValidOffset on POSIX and the number of
\* buffered entries on Windows; "entries" is the listing the system returns.

NoStream == [h |-> MaxHandle + 1, entries |-> <<>>, pos |-> 0, valid |-> 0]
Listing(os, p) == SetToSeq(KChildren(os, p))

\* openDir duplicates the handle for the stream.  On POSIX a failing fdopendir
\* (the handle is not a directory's) leaves the duplicate open.
POSIXFD_openDir(os, h) ==
    LET p == os.open[h].path
        duplicated == KOpened(os, os.open[h])
    IN  CASE KFree(os) = {} -> {[res |-> asVFSResult(os, "outOfHandles"), os |-> os, stream |-> NoStream]}
          [] os.tree[p] # "dir" ->
                {[res |-> asVFSResult(os, "notDirectory"), os |-> duplicated, stream |-> NoStream]}
          [] OTHER -> {[res |-> "success", os |-> duplicated,
                        stream |-> [NoStream EXCEPT !.h = Min(KFree(os)), !.entries = Listing(os, p)]]}

\* On Windows the duplicate is closed again when the first read of entries
\* fails, and the first buffer-full of entries is already read.
EntriesPerBuffer == 1
WindowsFD_openDir(os, h) ==
    LET p == os.open[h].path
        duplicated == KOpened(os, os.open[h])
    IN  CASE KFree(os) = {} -> {[res |-> "fatal", os |-> os, stream |-> NoStream]}
          [] os.tree[p] # "dir" -> {[res |-> "isNotDirectory", os |-> os, stream |-> NoStream]}
          [] "read" \notin os.open[h].access ->
                {[res |-> asVFSResult(os, "isDirectory"), os |-> os, stream |-> NoStream]}
          [] OTHER -> {[res |-> "success", os |-> duplicated,
                        stream |-> [h |-> Min(KFree(os)), entries |-> Listing(os, p), pos |-> 0,
                                    valid |-> Min({EntriesPerBuffer, Len(Listing(os, p))})]]}

VFD_openDir(os, h) == IF os.platform = "POSIX" THEN POSIXFD_openDir(os, h) ELSE WindowsFD_openDir(os, h)

POSIXDirEntStream_close(os, stream) == KClosed(os, stream.h)
WindowsDirEntStream_close(os, stream) == KClosed(os, stream.h)
DirEntStream_close(os, stream) ==
    CASE stream = NoStream -> os
      [] os.platform = "POSIX" -> POSIXDirEntStream_close(os, stream)
      [] OTHER -> WindowsDirEntStream_close(os, stream)

\* getNext past the last entry leaves the stream where it is.
POSIXDirEntStream_getNext(stream) ==
    [stream EXCEPT !.pos = Min({@ + 1, Len(stream.entries)})]

\* Windows reads another buffer-full when the position reaches the end of the
\* buffered ones.
WindowsDirEntStream_getNext(stream) ==
    LET next == Min({stream.pos + 1, Len(stream.entries)})
    IN  [stream EXCEPT !.pos = next,
            !.valid = IF stream.pos >= @ THEN Min({@ + EntriesPerBuffer, Len(stream.entries)}) ELSE @]

POSIXDirEntStream_tell_NotRaised(stream) == stream

\* tell raises POSIX's maxValidOffset to the position it returns.
POSIXDirEntStream_tell(stream) == [stream EXCEPT !.valid = Max({@, stream.pos})]

DirEntStream_getNext(os, stream) ==
    IF os.platform = "POSIX" THEN POSIXDirEntStream_getNext(stream) ELSE WindowsDirEntStream_getNext(stream)
DirEntStream_tell(os, stream) ==
    IF os.platform = "POSIX" THEN POSIXDirEntStream_tell(stream) ELSE stream

\* seek refuses an offset past the highest one a caller can have been given.
POSIXDirEntStream_canSeek(stream, offset) == offset <= stream.valid
WindowsDirEntStream_canSeek(stream, offset) == offset <= stream.valid
DirEntStream_canSeek(os, stream, offset) ==
    IF os.platform = "POSIX" THEN POSIXDirEntStream_canSeek(stream, offset)
                             ELSE WindowsDirEntStream_canSeek(stream, offset)

----------------------------------------------------------------------------
\* The file system operations, on paths of the host.

Opened(os, p, access, create, flags) ==
    LET cause == KOpenCause(os, p, access, create)
        node == [path |-> p, access |-> access, flags |-> flags, std |-> FALSE]
    IN  IF cause # "none" THEN {Failed(os, cause)}
        ELSE {Done([KOpened(os, node) EXCEPT !.tree[p] = IF @ = "none" THEN "file" ELSE @]),
              Failed(os, "io")}

\* POSIX has no access mode for neither reading nor writing: "none" reads.
POSIXFS_open(os, p, access, create, flags) ==
    Opened(os, p, IF access = {} THEN {"read"} ELSE access, create, flags)

WindowsFS_open(os, p, access, create, flags) == Opened(os, p, access, create, flags)

InnerFS_open(os, p, access, create, flags) ==
    IF os.platform = "POSIX" THEN POSIXFS_open(os, p, access, create, flags)
                             ELSE WindowsFS_open(os, p, access, create, flags)

\* getFileInfo and setFileTimes; Windows opens a handle and closes it again.
POSIXFS_getFileInfo(os, p) ==
    {IF os.tree[p] = "none" THEN Failed(os, "missing") ELSE Done(os), Failed(os, "io")}
WindowsFS_getFileInfo(os, p) ==
    {IF os.tree[p] = "none" THEN Failed(os, "missing")
     ELSE IF KFree(os) = {} THEN Failed(os, "outOfHandles") ELSE Done(os), Failed(os, "io")}
POSIXFS_setFileTimes(os, p) ==
    {IF os.tree[p] = "none" THEN Failed(os, "missing") ELSE Done(os), Failed(os, "io")}
WindowsFS_setFileTimes(os, p) ==
    {IF os.tree[p] = "none" THEN Failed(os, "missing")
     ELSE IF KFree(os) = {} THEN Failed(os, "outOfHandles") ELSE Done(os), Failed(os, "io")}

InnerFS_getFileInfo(os, p) ==
    IF os.platform = "POSIX" THEN POSIXFS_getFileInfo(os, p) ELSE WindowsFS_getFileInfo(os, p)
InnerFS_setFileTimes(os, p) ==
    IF os.platform = "POSIX" THEN POSIXFS_setFileTimes(os, p) ELSE WindowsFS_setFileTimes(os, p)

KUnlink(os, p) ==
    CASE os.tree[p] = "none" -> Failed(os, "missing")
      [] os.tree[p] = "dir" -> Failed(os, "isDirectory")
      [] OTHER -> Done([os EXCEPT !.tree[p] = "none"])
POSIXFS_unlinkFile(os, p) == {KUnlink(os, p), Failed(os, "io")}
WindowsFS_unlinkFile(os, p) == {KUnlink(os, p), Failed(os, "io")}
InnerFS_unlinkFile(os, p) ==
    IF os.platform = "POSIX" THEN POSIXFS_unlinkFile(os, p) ELSE WindowsFS_unlinkFile(os, p)

KRemoveDir(os, p) ==
    CASE os.tree[p] = "none" -> Failed(os, "missing")
      [] os.tree[p] = "file" -> Failed(os, "notDirectory")
      [] KChildren(os, p) # {} -> Failed(os, "notEmpty")
      [] OTHER -> Done([os EXCEPT !.tree[p] = "none"])
POSIXFS_removeDir(os, p) == {KRemoveDir(os, p), Failed(os, "io")}
WindowsFS_removeDir(os, p) == {KRemoveDir(os, p), Failed(os, "io")}
InnerFS_removeDir(os, p) ==
    IF os.platform = "POSIX" THEN POSIXFS_removeDir(os, p) ELSE WindowsFS_removeDir(os, p)

KCreateDir(os, p) ==
    CASE p # <<>> /\ os.tree[Front(p)] # "dir" -> Failed(os, "missing")
      [] os.tree[p] # "none" -> Failed(os, "exists")
      [] OTHER -> Done([os EXCEPT !.tree[p] = "dir"])
POSIXFS_createDir(os, p) == {KCreateDir(os, p), Failed(os, "io")}
WindowsFS_createDir(os, p) == {KCreateDir(os, p), Failed(os, "io")}
InnerFS_createDir(os, p) ==
    IF os.platform = "POSIX" THEN POSIXFS_createDir(os, p) ELSE WindowsFS_createDir(os, p)

----------------------------------------------------------------------------
\* SandboxFS: every operation is the inner file system's on the prefixed path.

getInnerPath(p) == SandboxRoot \o p

FS_open(os, p, access, create, flags) == InnerFS_open(os, getInnerPath(p), access, create, flags)
FS_getFileInfo(os, p) == InnerFS_getFileInfo(os, getInnerPath(p))
FS_setFileTimes(os, p) == InnerFS_setFileTimes(os, getInnerPath(p))
FS_unlinkFile(os, p) == InnerFS_unlinkFile(os, getInnerPath(p))
FS_removeDir(os, p) == InnerFS_removeDir(os, getInnerPath(p))
FS_createDir(os, p) == InnerFS_createDir(os, getInnerPath(p))

\* The system as a process finds it: its three stdio handles open.
StdSystem(platform, tree) ==
    [platform |-> platform, tree |-> tree,
     open |-> [h \in StdHandles |->
                [path |-> <<>>, access |-> IF h = 0 THEN {"read"} ELSE {"write"},
                 flags |-> [NoFlags EXCEPT !.append = h # 0], std |-> TRUE]]]

\* A successful transfer reports exactly the bytes it moved, never more than
\* the buffers hold, and fills each buffer before it starts the next.  (readv,
\* writev and their combined buffers; the loops of Emscripten's readv, writev.)
TransferIsExact ==
    io.ok => /\ io.count = Total(io.moved) /\ Len(io.moved) = Len(io.lens)
             /\ \A i \in 1..Len(io.moved) :
                    io.moved[i] > 0 => \A j \in 1..(i - 1) : io.moved[j] = io.lens[j]
=============================================================================
