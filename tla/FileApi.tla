------------------------------- MODULE FileApi -------------------------------
(***************************************************************************)
(* The fs functions a Lua program calls (fs.cpp) and the file handles      *)
(* they give out (fs_handle.c), on top of the FAT driver.  A behaviour is  *)
(* one of a volume, one of the functions that only compute with paths, or  *)
(* the mounting of a volume (Boot).                                        *)
(*                                                                         *)
(* A byte is a number; a string read from a file is the sequence of its    *)
(* bytes.  stdio, which lies between the handles and FAT_::read, is        *)
(* external: it reads the file in blocks and keeps a position and an       *)
(* end-of-file mark.  The volume is read-only, so handles opened for       *)
(* writing change nothing here.                                            *)
(***************************************************************************)
EXTENDS FatFs, Boot, FiniteSetsExt

CONSTANTS
  Paths,      \* the paths a program uses
  BlockSize,  \* bytes stdio reads at once
  Pieces,     \* what a program combines a path with
  MaxPath     \* the longest path it keeps

ASSUME BlockAssumption == BlockSize \in Nat \ {0}
ASSUME PathsAssumption == Paths \subseteq Seq(Nat)
\* C strings: a path has no 0 in it
ASSUME PiecesAssumption == Pieces \subseteq Seq(STRING \ {"NUL"})

VARIABLES
  handle,     \* the open file, or NoHandle
  answer,     \* the last call and what it returned
  panicked,   \* os::panic was called
  made        \* the path a program has combined or taken apart, and the call

vars == <<volume, ls_cache, handle, answer, panicked, made, boot>>

Newline == 10
Question == 63      \* "?"
Junk == 300         \* the memory behind a string without its final 0
EOF == -1
NoHandle == [mode |-> "none"]
nil == [op |-> "nil"]

-----------------------------------------------------------------------------
(* The functions that only compute with paths, called over and over by a   *)
(* program, as the shell does, on what it got before.  Here a path is a    *)
(* sequence of characters.                                                 *)

Slash == "/"
Backslash == "back"

\* A character of a C string.  Behind the last one there is a 0, and in front
\* of the first one the high byte of the Lua string's length, a 0 too.
CharAt(s, i) == IF i \in DOMAIN s THEN s[i] ELSE "NUL"

strrchr(s, c) == SelectLastInSeq(s, LAMBDA x : x = c)

basename(p) == SubSeq(p, strrchr(p, Slash) + 1, Len(p))

\* The first slash is dropped by a strcpy onto itself, which moves the text
\* down one byte at a time, since its two ends are aligned differently.
Rooted(p) == IF CharAt(p, 1) = Slash THEN Tail(p) ELSE p

dirname(p) ==
  LET q == Rooted(p)
      k == IF strrchr(q, Slash) # 0 THEN strrchr(q, Slash) ELSE strrchr(q, Backslash)
  IN IF k = 0 THEN q ELSE SubSeq(q, 1, k - 1)

\* the bytes combine allocates
Room(base, localPath) == Len(base) + Len(localPath) + 2

JoinedBare(base) == Rooted(base)

\* the base, with a slash behind it
Joined(base) == IF CharAt(base, Len(base)) # Slash THEN Append(Rooted(base), Slash) ELSE Rooted(base)

Made(op, text, base, localPath, low, high) ==
  made' = [op |-> op, text |-> text, base |-> base, local |-> localPath, low |-> low, high |-> high]

\* low and high are the first and the last byte of the buffer it writes; the
\* last slash of localPath is removed at the end of the result.
fs_combine(base, localPath) ==
  LET full == Joined(base) \o Rooted(localPath)
      cut == CharAt(localPath, Len(localPath)) = Slash
  IN /\ Len(full) <= MaxPath
     /\ Made("combine", SubSeq(full, 1, IF cut THEN Len(full) - 1 ELSE Len(full)), base, localPath,
             IF cut THEN Len(full) - 1 ELSE 0, Len(full))

fs_getName == Made("getName", basename(made.text), made.text, <<>>, 0, 0)
fs_getDir == Made("getDir", dirname(made.text), made.text, <<>>, 0, 0)

NoPath == [op |-> "none", text |-> <<>>, base |-> <<>>, local |-> <<>>, low |-> 0, high |-> 0]
PathInit == made \in {[NoPath EXCEPT !.op = "given", !.text = p] : p \in Pieces}

PathNext ==
  \/ \E p \in Pieces : fs_combine(made.text, p) \/ fs_combine(p, made.text)
  \/ fs_getName \/ fs_getDir

-----------------------------------------------------------------------------
Init ==
  /\ volume \in Volumes
  /\ ls_cache = <<>>
  /\ handle = NoHandle
  /\ answer = nil
  /\ panicked = FALSE
  /\ \/ made = NoPath /\ boot = NoBoot
     \/ volume = (CHOOSE v \in Volumes : TRUE) /\ PathInit /\ boot = NoBoot
     \/ volume = (CHOOSE v \in Volumes : TRUE) /\ made = NoPath /\ BootInit

-----------------------------------------------------------------------------
(* fs.cpp                                                                  *)

(* Every function looks its path up first; s is what stat gave. *)
LookedUp(s) == ~panicked /\ ls_cache' = s.cache

fs_exists(path, s) ==
  /\ LookedUp(s)
  /\ answer' = [op |-> "exists", path |-> path, value |-> s.ent.type # "INVALID_ENTITY"]
  /\ UNCHANGED <<volume, handle, panicked>>

fs_isDir(path, s) ==
  /\ LookedUp(s)
  /\ answer' = [op |-> "isDir", path |-> path, value |-> s.ent.type = "DIR"]
  /\ UNCHANGED <<volume, handle, panicked>>

fs_getSize(path, s) ==
  /\ LookedUp(s)
  /\ answer' = CASE s.ent.type = "FILE" -> [op |-> "getSize", path |-> path, value |-> s.ent.size]
                 [] s.ent.type = "DIR"  -> [op |-> "getSize", path |-> path, value |-> 0]
                 [] OTHER               -> [op |-> "error", call |-> "getSize", path |-> path]
  /\ UNCHANGED <<volume, handle, panicked>>

(* The entries that are files or directories and not hidden, sorted, in a  *)
(* table that starts at 0.                                                 *)
Table(ents) ==
  LET seen == {i \in DOMAIN ents : ents[i].type \in {"DIR", "FILE"} /\ ~ents[i].hidden}
      sorted == SetToSortSeq({ents[i].name : i \in seen}, <)
  IN  [i \in 0 .. Len(sorted) - 1 |-> sorted[i + 1]]

fs_list(path, s) ==
  /\ ~panicked
  /\ IF s.ent.type = "DIR"
     THEN \E r \in {int_ls(s.ent.block, s.cache, <<>>)} :
            /\ ls_cache' = r.cache
            /\ answer' = [op |-> "list", path |-> path, err |-> r.err, value |-> Table(r.ents)]
     ELSE /\ ls_cache' = s.cache
          /\ answer' = [op |-> "error", call |-> "list", path |-> path]
  /\ UNCHANGED <<volume, handle, panicked>>

(* What stdio reads of a file, block by block. *)
Stream(ent) ==
  FlattenSeq([i \in 1 .. (ent.size + BlockSize - 1) \div BlockSize |->
                read(ent, (i - 1) * BlockSize, BlockSize)])

(* fs_open: mode "bad" stands for every mode it does not know.             *)
fs_open(path, s, mode) ==
  /\ handle = NoHandle
  /\ LookedUp(s)
  /\ IF s.ent.type = "FILE" /\ mode # "bad"
     THEN /\ handle' = [mode |-> mode, ent |-> s.ent, pos |-> 0, eof |-> FALSE]
          /\ answer' = [op |-> "open", path |-> path]
     ELSE /\ answer' = [op |-> "error", call |-> mode, path |-> path]
          /\ UNCHANGED handle
  /\ UNCHANGED <<volume, panicked>>

-----------------------------------------------------------------------------
(* fs_handle.c                                                             *)

Reads(mode) == handle # NoHandle /\ handle.mode = mode /\ ~panicked

bytes == Stream(handle.ent)
Ahead == SubSeq(bytes, handle.pos + 1, Len(bytes))

checkChar(c) == IF c \in (32 .. 126) \cup {9, 10, 13} THEN c ELSE Question
Shown(s) == [i \in DOMAIN s |-> checkChar(s[i])]

(* lua_pushstring of a buffer without a final 0. *)
Unterminated(s) == {s, Append(s, Junk)}

Result(op, value) ==
  answer' = [op |-> op, ent |-> handle.ent, from |-> handle.pos, value |-> value]

Moved(pos, eof) == handle' = [handle EXCEPT !.pos = pos, !.eof = eof]

(* At the end-of-file mark every function returns nothing. *)
AtEof(mode) ==
  /\ Reads(mode) /\ handle.eof
  /\ answer' = nil
  /\ UNCHANGED <<volume, ls_cache, handle, panicked>>

(* A block that holds one of the bytes up to position upto cannot be read. *)
Unreadable(upto) ==
  \E i \in handle.pos \div BlockSize .. (upto - 1) \div BlockSize :
    ReadPanics(handle.ent, i * BlockSize, BlockSize)

Fetch(mode, upto) == Reads(mode) /\ ~handle.eof /\ ~Unreadable(upto)

(* FAT_::read calls os::panic when a cluster is not on the device.  If any *)
(* of the text functions meets such a block, readAll does.                 *)
Panic ==
  /\ \/ Reads("r") /\ Unreadable(handle.ent.size)
     \/ Reads("rb") /\ Unreadable(handle.pos + 1)
  /\ ~handle.eof
  /\ panicked' = TRUE
  /\ UNCHANGED <<volume, ls_cache, handle, answer>>

handle_readAll ==
  /\ Fetch("r", handle.ent.size)
  /\ Result("readAll", Shown(Ahead))
  /\ Moved(Len(bytes), FALSE)
  /\ UNCHANGED <<volume, ls_cache, panicked>>

LineLength == SelectInSeq(Ahead, LAMBDA c : c = Newline)

(* A line that ends with a newline. *)
ReadWholeLine ==
  LET n == LineLength
  IN  /\ n > 0
      /\ Fetch("r", handle.pos + n)
      /\ \E value \in Unterminated(Shown(SubSeq(Ahead, 1, n - 1))) : Result("readLine", value)
      /\ Moved(handle.pos + n, FALSE)

(* The end of the file comes first.  The step back is one byte too long:   *)
(* it repeats the byte before the line, or fails at the start of the file  *)
(* and leaves the end-of-file mark.                                        *)
ReadLastLine ==
  /\ LineLength = 0
  /\ Fetch("r", handle.ent.size)
  /\ \E value \in Unterminated(IF handle.pos = 0 THEN [i \in DOMAIN Ahead |-> Question]
                               ELSE Shown(SubSeq(bytes, handle.pos, Len(bytes) - 1))) :
       Result("readLine", value)
  /\ Moved(Len(bytes), handle.pos = 0)

handle_readLine ==
  /\ Reads("r")
  /\ ReadWholeLine \/ ReadLastLine
  /\ UNCHANGED <<volume, ls_cache, panicked>>

fgetc == IF Ahead = <<>> THEN EOF ELSE Head(Ahead)

GetChar ==
  IF Ahead = <<>> THEN Moved(handle.pos, TRUE) ELSE Moved(handle.pos + 1, FALSE)

handle_readChar ==
  /\ Fetch("r", handle.pos + 1)
  /\ \E value \in Unterminated(<<checkChar(fgetc)>>) : Result("readChar", value)
  /\ GetChar
  /\ UNCHANGED <<volume, ls_cache, panicked>>

(* A byte is returned as a signed char. *)
handle_readByte ==
  /\ Fetch("rb", handle.pos + 1)
  /\ Result("readByte", IF fgetc > 127 THEN fgetc - 256 ELSE fgetc)
  /\ GetChar
  /\ UNCHANGED <<volume, ls_cache, panicked>>

handle_close ==
  /\ handle # NoHandle /\ ~panicked
  /\ handle' = NoHandle
  /\ answer' = nil
  /\ UNCHANGED <<volume, ls_cache, panicked>>

Modes == {"r", "rb", "w", "bad"}

NextFile ==
  \/ \E path \in Paths : \E s \in {stat(path)} :
       \/ fs_exists(path, s) \/ fs_isDir(path, s) \/ fs_getSize(path, s)
       \/ fs_list(path, s)
       \/ \E mode \in Modes : fs_open(path, s, mode)
  \/ handle_readAll \/ handle_readLine \/ handle_readChar \/ AtEof("r")
  \/ handle_readByte \/ AtEof("rb")
  \/ handle_close \/ Panic
  \/ panicked /\ UNCHANGED <<volume, ls_cache, handle, answer, panicked>>

Next ==
  \/ made = NoPath /\ boot = NoBoot /\ NextFile /\ UNCHANGED <<made, boot>>
  \/ made # NoPath /\ PathNext /\ UNCHANGED <<volume, ls_cache, handle, answer, panicked, boot>>
  \/ boot # NoBoot /\ BootNext /\ UNCHANGED <<volume, ls_cache, handle, answer, panicked, made>>

Spec == Init /\ [][Next]_vars

-----------------------------------------------------------------------------
(* What the volume holds, told without the driver.                         *)

TrueLink(cl, n) == Walk(volume.chain, cl, n)

IsRoot(cl) == cl <= 2

(* The slots of a directory, from all its clusters. *)
TrueSlots(cl) ==
  IF IsRoot(cl) THEN volume.slots[Root] \o volume.rootrest
  ELSE FlattenSeq([i \in 1 .. Cardinality(Clusters) |->
         IF TrueLink(cl, i - 1) = End THEN <<>> ELSE volume.slots[TrueLink(cl, i - 1)]])

(* The slots that are entries: the short ones in front of the end. *)
Shorts(slots) ==
  {i \in DOMAIN slots : slots[i].kind = "short" /\ \A k \in 1 .. i : slots[k].kind # "end"}

(* The slot with an entry's name: where its long name begins, unless the   *)
(* end of a cluster cuts that name, which then goes by its 8.3 name.       *)
NameSlot(slots, i) ==
  LET long == {k \in 1 .. i - 1 : /\ slots[k].kind = "last" /\ k + slots[k].total = i
                                  /\ (k - 1) \div SlotsPerCluster = (i - 1) \div SlotsPerCluster}
  IN  IF long = {} THEN i ELSE CHOOSE k \in long : TRUE

(* Lost to every program: the driver reads one cluster of the root.        *)
Lost(cl, i) == IsRoot(cl) /\ i > SlotsPerCluster

(* The entries of a directory, without the lost ones. *)
TrueEntries(cl) ==
  LET slots == TrueSlots(cl)
  IN  {Dirent(slots[NameSlot(slots, i)].name,
              slots[i].type, slots[i].block, slots[i].size, slots[i].hidden) :
         i \in {k \in Shorts(slots) : ~Lost(cl, k)}}

Named(ent, name) ==
  IF ent.type # "DIR" THEN {} ELSE {e \in TrueEntries(ent.block) : e.name = name}

(* The entry a path names, following names exactly. *)
TrueEntry(path) ==
  LET at[k \in 0 .. Len(path)] ==
        IF k = 0 THEN TheRoot
        ELSE LET named == Named(at[k - 1], path[k])
             IN  IF named = {} THEN INVALID ELSE CHOOSE e \in named : TRUE
  IN  at[Len(path)]

(* The entry a lookup of the path ends at: a name that is missing between  *)
(* the first and the last one is passed over (fat_sync.cpp:121).           *)
Reached(path) ==
  LET at[k \in 0 .. Len(path)] ==
        IF k = 0 THEN TheRoot
        ELSE LET named == Named(at[k - 1], path[k])
             IN  IF named # {} THEN CHOOSE e \in named : TRUE
                 ELSE IF at[k - 1].type = "DIR" /\ k \notin {1, Len(path)} THEN at[k - 1]
                 ELSE INVALID
  IN  at[Len(path)]

TrueBytes(ent) ==
  SubSeq(FlattenSeq([i \in 1 .. (ent.size + ClusterSize - 1) \div ClusterSize |->
                       volume.data[TrueLink(ent.block, i - 1)]]), 1, ent.size)

(* Its clusters follow each other, behind those that are the root          *)
(* directory to the driver.                                                *)
Contiguous(ent) ==
  \A i \in 1 .. (ent.size + ClusterSize - 1) \div ClusterSize :
    LET cl == ent.block + i - 1
    IN  TrueLink(ent.block, i - 1) = cl /\ cl \in Clusters /\ cl > 2

AllReadable == \A cl \in Clusters : cl \in volume.readable

-----------------------------------------------------------------------------
TypeOK ==
  /\ volume \in Volumes
  /\ \A c \in DOMAIN ls_cache : \A i \in DOMAIN ls_cache[c] :
       ls_cache[c][i].type \in {"DIR", "FILE", "VOLUME_ID"}
  /\ handle # NoHandle => handle.pos \in 0 .. handle.ent.size
  /\ panicked \in BOOLEAN

(* The cache never changes an answer: it holds what reading the directory  *)
(* again would give, whatever was looked up before and in which order.     *)
CacheHonest == \A c \in DOMAIN ls_cache : ls_cache[c] = Listing(c).ents

(* No entry's name is the beginning of a name the path looks for. *)
NoPrefix(path) == \A i \in DOMAIN path : \A pair \in PrefixOf : pair[2] # path[i]

(* A path that exists, and is not lost behind the first cluster of the     *)
(* root, is found, with its type and its size, on a volume that can be     *)
(* read and whose table is loaded.                                         *)
FoundIfThere ==
  answer.op \in {"exists", "isDir", "getSize", "error"} /\ AllReadable
    /\ ~volume.fat32 /\ NoPrefix(answer.path) =>
      LET ent == TrueEntry(answer.path)
      IN  ent # INVALID =>
            /\ answer.op = "error" => answer.call # "getSize" \/ ent.type = "VOLUME_ID"
            /\ answer.op = "exists" => answer.value
            /\ answer.op = "isDir" => answer.value = (ent.type = "DIR")
            /\ answer.op = "getSize" => answer.value = ent.size

(* fs.exists is true of no path but those that exist and those whose       *)
(* missing directories the lookup passes over: of rom/none/apis it says    *)
(* what it says of rom/apis.  Of a path lost behind the first cluster of   *)
(* the root it is false.                                                   *)
NothingMadeUp ==
  answer.op = "exists" /\ ~volume.fat32 /\ NoPrefix(answer.path) /\ answer.value =>
    Reached(answer.path) # INVALID

(* The names a program meets that goes through fs.list's table from 1, as  *)
(* ipairs does. *)
Listed(table) == {table[i] : i \in DOMAIN table \ {0}}

(* A program that lists a directory from 1 meets all names that are not    *)
(* hidden but the one that sorts first, since the table starts at 0: in a  *)
(* subdirectory that is the dot entry, in the root a file or a directory.  *)
ListComplete ==
  answer.op = "list" /\ answer.err = "no_error" /\ ~volume.fat32 /\ NoPrefix(answer.path) =>
    LET ent == TrueEntry(answer.path)
        visible == {e \in TrueEntries(ent.block) : e.type \in {"DIR", "FILE"} /\ ~e.hidden}
        names == {e.name : e \in visible}
    IN  ent # INVALID =>
          Listed(answer.value) = {n \in names : \E first \in names : first < n}

(* The line a handle finds at position from: up to the next newline.  Of a *)
(* last line without one the step back (fs_handle.c:38) goes one byte too  *)
(* far: its bytes come shifted by one, or at the start of the file, where  *)
(* the step fails, as question marks.                                      *)
LineAt(stored, from) ==
  LET ahead == SubSeq(stored, from + 1, Len(stored))
      n == SelectInSeq(ahead, LAMBDA c : c = Newline)
  IN  IF n > 0 THEN Shown(SubSeq(ahead, 1, n - 1))
      ELSE IF from = 0 THEN [i \in DOMAIN ahead |-> Question]
      ELSE Shown(SubSeq(stored, from, Len(stored) - 1))

(* If a file's clusters follow each other, on a volume whose table is      *)
(* loaded, readAll returns exactly the bytes they hold from the handle's   *)
(* position on, with "?" for what is not text.  readLine returns the line  *)
(* there if a newline ends it, and something else if not (see LineAt); as  *)
(* its buffer has no final 0 (fs_handle.c:39-42), whatever the memory      *)
(* behind holds may follow.                                                *)
TextAsStored ==
  answer.op \in {"readAll", "readLine"} /\ ~volume.fat32 /\ Contiguous(answer.ent) =>
    LET stored == TrueBytes(answer.ent)
    IN  /\ answer.op = "readAll" => answer.value = Shown(SubSeq(stored, answer.from + 1, Len(stored)))
        /\ answer.op = "readLine" => answer.value \in Unterminated(LineAt(stored, answer.from))

(* exists, isDir, getSize and list answer what the volume holds, with the  *)
(* exceptions named above, in whatever order they are called and whatever  *)
(* they left in the cache.                                                 *)
AnswersTrue == TypeOK /\ FoundIfThere /\ NothingMadeUp /\ ListComplete

\* the numbers of a set, in order
InOrder(S) == CHOOSE f \in [1 .. Cardinality(S) -> S] : \A i, j \in DOMAIN f : i < j => f[i] < f[j]

\* the names in a path: what lies between its slashes
Between == {"NUL", Slash}
Starts(p) == {i \in DOMAIN p : p[i] # Slash /\ CharAt(p, i - 1) \in Between}
EndOf(p, i) == Min({j \in i .. Len(p) : CharAt(p, j + 1) \in Between})
Names(p) ==
  LET starts == InOrder(Starts(p))
  IN [k \in DOMAIN starts |-> SubSeq(p, starts[k], EndOf(p, starts[k]))]

\* However often a program combines, with slashes in front, behind or in
\* between, the result names what its parts name, one behind the other.
CombineNames == made.op = "combine" => Names(made.text) = Names(made.base) \o Names(made.local)

\* A path with a directory in it is its directory and its name: combining
\* them again gives it back.
DirAndName ==
  LET p == made.text
  IN (Len(Names(p)) >= 2 /\ Last(p) # Slash) =>
       /\ Names(dirname(p)) = Front(Names(p))
       /\ basename(p) = Last(Names(p))

\* combine writes inside the buffer it allocated, except that combining "/"
\* with "/" clears the byte in front of it.
CombineInBuffer ==
  made.op = "combine" /\ ~(made.base = <<Slash>> /\ made.local = <<Slash>>) =>
    0 <= made.low /\ made.high < Room(made.base, made.local)

\* Paths that are combined and taken apart in any order name what their parts
\* name, and are built inside their buffers.
PathsCompose == CombineNames /\ DirAndName /\ CombineInBuffer
=============================================================================
