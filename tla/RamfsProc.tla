----------------------------- MODULE RamfsProc -----------------------------
(***************************************************************************)
(* The two /proc files of ramfs persistence (fs/ramfs/inode.c): how the    *)
(* text written to bind and to sync becomes paths, in what order the       *)
(* entries come and go, and the life of the ramfs_fs_info of a mount from  *)
(* the fs_context that allocates it to ramfs_kill_sb.                      *)
(*                                                                         *)
(* A text is a sequence of characters of four classes: part of a name, a   *)
(* blank, a tab, and a newline (or carriage return).                       *)
(***************************************************************************)
EXTENDS Integers, Sequences, SequencesExt, FiniteSets

CONSTANTS
    MaxText,    \* bound on the length of a text
    Mounts,     \* mount requests, and the super_blocks they become
    Modes,      \* values of the mode option
    AllUGO,     \* S_IALLUGO + 1: the option is kept modulo this
    DefaultMode \* RAMFS_DEFAULT_MODE

Chars == {"name", "blank", "tab", "newline"}

VARIABLES
    entries,    \* the /proc entries there are
    text,       \* the request being served: what was written
    req,        \* which file, and what came of it
    fc,         \* mount -> its fs_context: "none", "open", "got"
    fsi,        \* mount -> "none", or the mode of its ramfs_fs_info
    sb,         \* mount -> "none", "mounted" or "pinned" by a bind
    asked       \* history: mount -> the mode last asked for

procVars == <<entries, text, req, fc, fsi, sb, asked>>

Idle == [file |-> "none", result |-> "none", path |-> <<>>, dir |-> <<>>]

ProcInit ==
    /\ entries = {}
    /\ text = <<>>
    /\ req = Idle
    /\ fc = [m \in Mounts |-> "none"]
    /\ fsi = [m \in Mounts |-> -1]
    /\ sb = [m \in Mounts |-> "none"]
    /\ asked = [m \in Mounts |-> DefaultMode]

-----------------------------------------------------------------------------
(* /proc/fs/ramfs.                                                         *)

\* ramfs_proc_init: what an entry that cannot be made leaves.
ProcEntries == <<"root", "bind", "sync">>

ProcMade(n) == IF n = 3 THEN ToSet(ProcEntries) ELSE {}

RamfsProcInit ==
    /\ entries = {} /\ \A m \in Mounts : fc[m] = "none"
    /\ \E n \in 0 .. 3 : entries' = ProcMade(n)
    /\ UNCHANGED <<text, req, fc, fsi, sb, asked>>

-----------------------------------------------------------------------------
(* The writes.                                                             *)

\* strchr(kbuf, ' '), or 0.
FirstBlank(s) == IF \E i \in 1 .. Len(s) : s[i] = "blank"
                 THEN CHOOSE i \in 1 .. Len(s) : /\ s[i] = "blank"
                                                 /\ \A j \in 1 .. i - 1 : s[j] # "blank"
                 ELSE 0

SkipBlanks(s) ==
    LET from == CHOOSE k \in 1 .. Len(s) + 1 :
                   /\ \A j \in 1 .. k - 1 : s[j] = "blank"
                   /\ k <= Len(s) => s[k] # "blank"
    IN  SubSeq(s, from, Len(s))

\* The loops that cut newlines off the end.
\* Mutant: one newline is cut.
CutNewlines_One(s) == IF s # <<>> /\ Last(s) = "newline" THEN Front(s) ELSE s

CutNewlines(s) ==
    LET to == CHOOSE k \in 0 .. Len(s) :
                 /\ \A j \in k + 1 .. Len(s) : s[j] = "newline"
                 /\ k > 0 => s[k] # "newline"
    IN  SubSeq(s, 1, to)

BindWrite ==
    LET i == FirstBlank(text) IN
    /\ req.file = "bind" /\ req.result = "none"
    /\ req' = IF i = 0 THEN [req EXCEPT !.result = "EINVAL"]
              ELSE [req EXCEPT !.result = "bind",
                               !.path = SubSeq(text, 1, i - 1),
                               !.dir = CutNewlines(SkipBlanks(SubSeq(text, i + 1, Len(text))))]
    /\ UNCHANGED <<entries, text, fc, fsi, sb, asked>>

HasContent == \E i \in 1 .. Len(text) : text[i] = "name"

SyncPath(name) == IF name = <<>> THEN [result |-> "EINVAL", path |-> <<>>]
                  ELSE [result |-> "open", path |-> name]

\* has_content is set when something else than blanks is found and has no
\* initial value: in a text of blanks either branch may be taken.
SyncWrite ==
    /\ req.file = "sync" /\ req.result = "none"
    /\ \E has_content \in IF HasContent THEN {TRUE} ELSE BOOLEAN :
          IF ~has_content THEN req' = [req EXCEPT !.result = "ignored"]
          ELSE LET name == SyncPath(CutNewlines(text)) IN
               req' = [req EXCEPT !.result = name.result, !.path = name.path]
    /\ UNCHANGED <<entries, text, fc, fsi, sb, asked>>

\* write(2) to one of the files, and its return.
StartWrite(file, s) ==
    /\ req = Idle /\ file \in entries
    /\ text' = s
    /\ req' = [req EXCEPT !.file = file]
    /\ UNCHANGED <<entries, fc, fsi, sb, asked>>

EndWrite ==
    /\ req.result # "none"
    /\ req' = Idle
    /\ text' = <<>>
    /\ UNCHANGED <<entries, fc, fsi, sb, asked>>

-----------------------------------------------------------------------------
(* A mount.                                                                *)

RamfsInitFsContext(m) ==
    /\ entries # {} /\ req = Idle
    /\ fc[m] = "none" /\ sb[m] = "none"
    /\ fc' = [fc EXCEPT ![m] = "open"]
    /\ fsi' = [fsi EXCEPT ![m] = DefaultMode]
    /\ UNCHANGED <<entries, text, req, sb, asked>>

Masked(mode) == mode % AllUGO

\* An option that is not known is ignored; one that cannot be parsed is refused.
RamfsParseParam(m, mode) ==
    /\ fc[m] = "open" /\ req = Idle
    /\ fsi' = [fsi EXCEPT ![m] = Masked(mode)]
    /\ asked' = [asked EXCEPT ![m] = mode]
    /\ UNCHANGED <<entries, text, req, fc, sb>>

\* ramfs_get_tree: the super_block takes the ramfs_fs_info over, and when
\* ramfs_fill_super then fails, gives it up through ramfs_kill_sb.
RamfsGetTree(m) ==
    /\ fc[m] = "open" /\ req = Idle
    /\ fc' = [fc EXCEPT ![m] = "got"]
    /\ \/ /\ sb' = [sb EXCEPT ![m] = "mounted"]
          /\ UNCHANGED fsi
       \/ /\ fsi' = [fsi EXCEPT ![m] = -1]
          /\ UNCHANGED sb
    /\ UNCHANGED <<entries, text, req, asked>>

\* ramfs_free_fc: s_fs_info is NULL once a super_block took it over.
RamfsFreeFc(m) ==
    /\ fc[m] # "none" /\ req = Idle
    /\ fc' = [fc EXCEPT ![m] = "none"]
    /\ fsi' = IF fc[m] = "open" THEN [fsi EXCEPT ![m] = -1] ELSE fsi
    /\ asked' = [asked EXCEPT ![m] = IF sb[m] = "none" THEN DefaultMode ELSE @]
    /\ UNCHANGED <<entries, text, req, sb>>

\* ramfs_bind puts neither path on success: the mount can then not go.
Pin(m) ==
    /\ sb[m] = "mounted" /\ req.result = "bind"
    /\ sb' = [sb EXCEPT ![m] = "pinned"]
    /\ UNCHANGED <<entries, text, req, fc, fsi, asked>>

RamfsKillSb(m) ==
    /\ sb[m] = "mounted" /\ fc[m] = "none" /\ req = Idle
    /\ sb' = [sb EXCEPT ![m] = "none"]
    /\ fsi' = [fsi EXCEPT ![m] = -1]
    /\ asked' = [asked EXCEPT ![m] = DefaultMode]
    /\ UNCHANGED <<entries, text, req, fc>>

ProcNext ==
    \/ RamfsProcInit
    \/ \E file \in {"bind", "sync"}, s \in BoundedSeq(Chars, MaxText) : StartWrite(file, s)
    \/ BindWrite
    \/ SyncWrite
    \/ EndWrite
    \/ \E m \in Mounts :
          \/ RamfsInitFsContext(m)
          \/ \E mode \in Modes : RamfsParseParam(m, mode)
          \/ RamfsGetTree(m)
          \/ RamfsFreeFc(m)
          \/ Pin(m)
          \/ RamfsKillSb(m)

-----------------------------------------------------------------------------
(* Properties.                                                             *)

\* Every variable has its type, and /proc/fs/ramfs has all its entries or none.
ProcTypeOK ==
    /\ entries \in {{}, ToSet(ProcEntries)}
    /\ Len(text) <= MaxText /\ ToSet(text) \subseteq Chars
    /\ req.result \in {"none", "EINVAL", "bind", "ignored", "open"}
    /\ fc \in [Mounts -> {"none", "open", "got"}]
    /\ sb \in [Mounts -> {"none", "mounted", "pinned"}]
    /\ fsi \in [Mounts -> -1 .. 2 * AllUGO]

\* What bind makes of a text is what its format says, "ramfs_path sync_dir": the
\* text is the path, blanks, the directory and newlines, the path has no blank,
\* and the directory neither starts with a blank nor ends with a newline.
BindSplits ==
    req.result = "bind" =>
        LET middle == Len(text) - Len(req.path) - Len(req.dir) IN
        \E blanks \in 1 .. middle :
            /\ text = req.path \o [i \in 1 .. blanks |-> "blank"] \o req.dir
                      \o [i \in 1 .. middle - blanks |-> "newline"]
            /\ "blank" \notin ToSet(req.path)
            /\ req.dir # <<>> => Head(req.dir) # "blank" /\ Last(req.dir) # "newline"

\* The file sync opens has a name, which does not end in the newline that echo
\* writes.
SyncOpensName ==
    req.file = "sync" /\ req.result = "open" =>
        /\ req.path # <<>> /\ Last(req.path) # "newline"
        /\ IsPrefix(req.path, text)

\* A mount keeps its ramfs_fs_info, with the mode last asked for reduced to its
\* permission bits, from the fs_context to the super_block: freed neither while
\* one of the two still has it nor kept after both are gone.
FsInfoOwned ==
    \A m \in Mounts :
        /\ (fsi[m] # -1) = (fc[m] = "open" \/ sb[m] # "none")
        /\ fsi[m] # -1 => fsi[m] = asked[m] % AllUGO

\* What an administrator asks for is what the mount gets: the two /proc files
\* cut their texts as their format says, and a mount keeps its options.
RequestsKept == ProcTypeOK /\ BindSplits /\ SyncOpensName /\ FsInfoOwned
=============================================================================
