-------------------------------- MODULE File --------------------------------
(***************************************************************************)
(* Files and folders: io/file.hpp and io/dir.hpp over the calls of the      *)
(* operating system, on Linux and on Windows.  The operating system is      *)
(* modelled from what the code asks of it: names that lead to contents, a   *)
(* table of open descriptors with a position each, and a limit of that      *)
(* table.  A name is a record of its folder and its last part; a content is *)
(* a sequence of a few items.                                               *)
(*                                                                         *)
(* file::close swaps the descriptor of the handle for -1 and then asks the  *)
(* system to close what the handle now holds, -1: the descriptor stays open *)
(* in the table for ever.                                                   *)
(***************************************************************************)
EXTENDS Integers, Sequences

CONSTANTS System,       \* "linux" or "windows", or both to look at each
          Handle,       \* objects of class file
          Path,         \* names of files: [folder |-> .., last |-> ..]
          Datum,        \* items a content is made of
          MaxContent,    \* bound on the length of a content
          Descriptors,  \* entries of the table of open files
          Contents,     \* contents that can exist at once
          NoFile

TopFolder     == "top"                              \* the folder that always exists
Folder  == {p.folder : p \in Path}
Unnamed == [folder |-> TopFolder, last |-> ""]      \* path of file::file()

VARIABLES system,   \* the build
          names,    \* Path -> the content it leads to, or NoFile
          data,     \* content -> its items
          folders,  \* the folders that exist
          open_files,    \* descriptor -> NoFile or [content, at, mode]
          fd,       \* Handle -> a descriptor or NoFile, the -1 of the code
          path      \* Handle -> the name it was given

fileVars == <<system, names, data, folders, open_files, fd, path>>

Linux    == system = "linux"
Opened   == {d \in Descriptors : open_files[d] # NoFile}
InUse    == {names[p] : p \in Path} \cup {open_files[d].content : d \in Opened}
FreshContents    == (1 .. Contents) \ InUse
Reaches(p)  == p.folder \in folders
Exists(p)   == names[p] # NoFile
LeastOf(S)    == CHOOSE n \in S : \A m \in S : n <= m

FileTypeOK ==
    /\ system \in System
    /\ names \in [Path -> 1 .. Contents \cup {NoFile}]
    /\ data \in [1 .. Contents -> UNION {[1 .. n -> Datum] : n \in 0 .. MaxContent}]
    /\ folders \subseteq Folder \cup {TopFolder} /\ TopFolder \in folders
    /\ \A p \in Path : names[p] # NoFile => p.folder \in folders
    /\ \A d \in Opened : /\ open_files[d].content \in 1 .. Contents
                         /\ open_files[d].at \in Nat
                         /\ open_files[d].mode \in {"r", "w", "rw"}
    /\ fd \in [Handle -> Descriptors \cup {NoFile}]
    /\ path \in [Handle -> Path \cup {Unnamed}]

(* Descriptors are small numbers; -1 is none of them, and no entry.         *)
OpenEntry == [content : 1 .. Contents, at : Nat, mode : {"r", "w", "rw"}]
ASSUME FileAssumption ==
    /\ MaxContent \in Nat /\ Contents \in Nat
    /\ Descriptors \subseteq Nat /\ NoFile \notin Descriptors \cup 1 .. Contents \cup OpenEntry

FileInit ==
    /\ system \in System
    /\ names \in [Path -> {NoFile}]
    /\ data = [c \in 1 .. Contents |-> <<>>]
    /\ folders = {TopFolder}
    /\ open_files = [d \in Descriptors |-> NoFile]
    /\ fd = [h \in Handle |-> NoFile]
    /\ path = [h \in Handle |-> Unnamed]

-----------------------------------------------------------------------------
(* What the operating system does.                                          *)

\* open of Linux needs the file; the two CreateFileA of Windows first try to
\* create it and then take the one that is there.
CanOpen(p, made) ==
    /\ Descriptors \ Opened # {}
    /\ Exists(p) \/ (~Linux /\ p.folder \in made /\ FreshContents # {})

\* The state after the system opened p: a descriptor at position 0.
OpenDone(h, p, mode) ==
    LET d == LeastOf(Descriptors \ Opened)
        c == IF Exists(p) THEN names[p] ELSE LeastOf(FreshContents)
    IN /\ open_files' = [open_files EXCEPT ![d] = [content |-> c, at |-> 0, mode |-> mode]]
       /\ names' = [names EXCEPT ![p] = c]
       /\ data' = IF Exists(p) THEN data ELSE [data EXCEPT ![c] = <<>>]
       /\ fd' = [fd EXCEPT ![h] = d]

\* The items of a content with those of s put from position at (0-based) on; a
\* position behind the end is kept out by the callers.
Overwritten(items, at, s) ==
    SubSeq(items, 1, at) \o s \o SubSeq(items, at + Len(s) + 1, Len(items))

-----------------------------------------------------------------------------
(* The handle.                                                              *)

\* file::close: nothing but the handle changes.
Shut(h) == [fd EXCEPT ![h] = NoFile]

CloseHandle(h) == fd[h] # NoFile /\ fd' = Shut(h)
            /\ UNCHANGED <<system, names, data, folders, open_files, path>>

\* The folder that open makes first when the file is to be written.  A name
\* without a separator has none; mkdir makes it.
MadeFor(p, mode) == IF mode = "r" THEN folders ELSE folders \cup {p.folder}

\* file::open, and the constructor with a mode: the folder, the close, the name,
\* the call.  A failure leaves the handle closed with the new name.
Open(h, p, mode) ==
    /\ folders' = MadeFor(p, mode)
    /\ path' = [path EXCEPT ![h] = p]
    /\ IF CanOpen(p, folders')
          THEN OpenDone(h, p, mode)
          ELSE fd' = Shut(h) /\ UNCHANGED <<names, data, open_files>>
    /\ UNCHANGED system

\* read and write of a closed handle open it first, at position 0 and for this
\* one direction.
Reopen(h, mode) == fd[h] = NoFile /\ path[h] # Unnamed /\ Open(h, path[h], mode)

\* file::read and file::write on an open handle: the items that are there, or
\* none when the mode does not allow it.
ReadItems(h, n) ==
    /\ fd[h] # NoFile
    /\ LET e    == open_files[fd[h]]
           left == Len(data[e.content]) - e.at
           got  == IF e.mode = "w" \/ left < 0 THEN 0 ELSE IF left < n THEN left ELSE n
       IN /\ got > 0
          /\ open_files' = [open_files EXCEPT ![fd[h]].at = @ + got]
    /\ UNCHANGED <<system, names, data, folders, fd, path>>

WriteItems(h, s) ==
    /\ fd[h] # NoFile
    /\ LET e == open_files[fd[h]] IN
       /\ e.mode # "r" /\ e.at <= Len(data[e.content])
       /\ e.at + Len(s) <= MaxContent
       /\ data' = [data EXCEPT ![e.content] = Overwritten(@, e.at, s)]
       /\ open_files' = [open_files EXCEPT ![fd[h]].at = @ + Len(s)]
    /\ UNCHANGED <<system, names, folders, fd, path>>

\* Where a seek leads: from the start for a positive offset; Linux takes 0 and
\* the negative ones from the end, so that seek(0) is the end of the file and
\* seek(-1) one item before it; Windows takes 0 from the start and hands the
\* end -offset - 1, behind the end.
SeekTo(offset, length) ==
    IF Linux THEN (IF offset > 0 THEN offset ELSE length + offset)
    ELSE IF offset < 0 THEN length - offset - 1 ELSE offset

SetPosition(h, at) ==
    /\ at \in 0 .. MaxContent
    /\ open_files' = [open_files EXCEPT ![fd[h]].at = at]
    /\ UNCHANGED <<system, names, data, folders, fd, path>>

Seek(h, offset) == fd[h] # NoFile
                   /\ SetPosition(h, SeekTo(offset, Len(data[open_files[fd[h]].content])))

\* backward moves on by the offset, forward by its complement.
Backward(h, offset) == fd[h] # NoFile /\ SetPosition(h, open_files[fd[h]].at + offset)
Forward(h, offset)  == Backward(h, -offset)

\* A slip of TakenOver: the other handle keeps its descriptor.
TakenOver_NotCleared(to, from) == [fd EXCEPT ![to] = fd[from]]

\* The handle that takes another one's descriptor and name (move constructor,
\* and operator= which closes its own first): the other one holds -1.
TakenOver(to, from) == [fd EXCEPT ![to] = fd[from], ![from] = NoFile]

Assign(to, from) ==
    /\ to # from
    /\ fd' = TakenOver(to, from)
    /\ path' = [path EXCEPT ![to] = path[from]]
    /\ UNCHANGED <<system, names, data, folders, open_files>>

\* ~file closes; the storage then holds a handle without a name.
Destroy(h) == /\ fd' = Shut(h) /\ path' = [path EXCEPT ![h] = Unnamed]
              /\ UNCHANGED <<system, names, data, folders, open_files>>

-----------------------------------------------------------------------------
(* Files and folders by name: a failure changes nothing.                    *)

Renames(change) == /\ names' = change
                   /\ UNCHANGED <<system, data, folders, open_files, fd, path>>

RemoveFile(p) == Exists(p) /\ Renames([names EXCEPT ![p] = NoFile])

\* move_to: rename of Linux replaces the target, MoveFileA does not.
MoveFile(p, q) == /\ Exists(p) /\ Reaches(q) /\ p # q
                  /\ Linux \/ names[q] = NoFile
                  /\ Renames([names EXCEPT ![q] = names[p], ![p] = NoFile])

\* move_to_forcedly: mv, or MoveFileExA with the flag that replaces.
MoveForcedly(p, q) == /\ Exists(p) /\ Reaches(q) /\ p # q
                      /\ Renames([names EXCEPT ![q] = names[p], ![p] = NoFile])

\* copy_to: cp writes into a target that is there, so that its open descriptors
\* see the new items; CopyFileA is told to fail then.
CopyTo(p, q) ==
    /\ Exists(p) /\ Reaches(q) /\ p # q
    /\ IF names[q] = NoFile THEN FreshContents # {} ELSE Linux
    /\ LET c == IF names[q] = NoFile THEN LeastOf(FreshContents) ELSE names[q] IN
       /\ names' = [names EXCEPT ![q] = c]
       /\ data' = [data EXCEPT ![c] = data[names[p]]]
    /\ UNCHANGED <<system, folders, open_files, fd, path>>

\* dir::create, dir::remove: rm -rf takes what is inside, RemoveDirectoryA only
\* an empty folder.  dir::move_to hands mv an option it does not have (-r) and
\* always fails on Linux.
FilesIn(f) == {p \in Path : p.folder = f /\ names[p] # NoFile}

CreateFolder(f) == /\ f \notin folders /\ folders' = folders \cup {f}
                   /\ UNCHANGED <<system, names, data, open_files, fd, path>>

RemoveFolder(f) ==
    /\ f \in folders \ {TopFolder}
    /\ Linux \/ FilesIn(f) = {}
    /\ folders' = folders \ {f}
    /\ names' = [p \in Path |-> IF p \in FilesIn(f) THEN NoFile ELSE names[p]]
    /\ UNCHANGED <<system, data, open_files, fd, path>>

FileNext ==
    \/ \E h \in Handle :
          \/ CloseHandle(h)
          \/ \E p \in Path, mode \in {"r", "w", "rw"} : Open(h, p, mode)
          \/ \E mode \in {"r", "w"} : Reopen(h, mode)
          \/ \E n \in 1 .. MaxContent : ReadItems(h, n)
          \/ \E v \in Datum : WriteItems(h, <<v>>)
          \/ \E offset \in {-1, 0, 1} : Seek(h, offset)
          \/ Backward(h, 1)
          \/ Forward(h, 1)
          \/ \E g \in Handle : Assign(h, g)
          \/ Destroy(h)
    \/ \E p \in Path : RemoveFile(p)
    \/ \E p, q \in Path : MoveFile(p, q) \/ MoveForcedly(p, q) \/ CopyTo(p, q)
    \/ \E f \in Folder : CreateFolder(f) \/ RemoveFolder(f)

FileSpec == FileInit /\ [][FileNext]_fileVars

-----------------------------------------------------------------------------
(* What a user of a handle relies on: the descriptor it holds is open, and   *)
(* no other handle holds it, however the handles were opened, closed and     *)
(* assigned (file.hpp, the move constructor and operator= of a class that    *)
(* cannot be copied).                                                        *)
DescriptorsApart ==
    \A h \in Handle : fd[h] # NoFile =>
        /\ fd[h] \in Opened
        /\ \A g \in Handle \ {h} : fd[g] # fd[h]

(* A name and a descriptor lead to what was written under it: no two names   *)
(* share a content, whatever was moved, copied, removed or opened.           *)
NamesApart ==
    \A p, q \in Path : p # q /\ names[p] # NoFile => names[p] # names[q]
=============================================================================
