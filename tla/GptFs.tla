------------------------------- MODULE GptFs -------------------------------
(***************************************************************************)
(* GPTfs (src/fuse/gptfs.py): a file system in which writing to a          *)
(* session's input asks a service and puts the answer into its output.     *)
(* Four maps describe the tree: files (the attributes), data, directories  *)
(* and dir_files.  FUSE runs with nothreads, so every operation is a step. *)
(*                                                                         *)
(* The kernel asks getattr before it creates, removes or writes (external).*)
(* An answer is a sequence of bytes that name the prompt they answer.      *)
(***************************************************************************)
EXTENDS Integers, Sequences, FiniteSets

CONSTANTS
    Sessions,   \* names under the root
    MaxLen,     \* bound on the length of a file
    MaxAnswer,  \* bound on the length of an answer
    NoData      \* no entry in data

Special == {"input", "output", "error"}

Paths == Sessions \X Special

VARIABLES
    size,           \* files: path -> st_size, -1 when not there
    content,           \* path -> its bytes, NoData when there is no entry
    dirs,           \* directories, without the root
    dirAttrs,       \* the sessions that have an entry in files
    dirFiles,       \* session -> the names readdir shows
    prompted           \* history: session -> the prompt last sent

gptVars == <<size, content, dirs, dirAttrs, dirFiles, prompted>>

GptInit ==
    /\ size = [p \in Paths |-> -1]
    /\ content = [p \in Paths |-> NoData]
    /\ dirs = {}
    /\ dirAttrs = {}
    /\ dirFiles = [s \in Sessions |-> {}]
    /\ prompted = [s \in Sessions |-> <<>>]

\* self.data.get(path, b'')
Bytes(p) == IF content[p] = NoData THEN <<>> ELSE content[p]

FilesOf(s) == {p \in Paths : p[1] = s}

-----------------------------------------------------------------------------
Mkdir(s) ==
    /\ s \notin dirAttrs
    /\ dirAttrs' = dirAttrs \cup {s}
    /\ dirs' = dirs \cup {s}
    /\ size' = [p \in Paths |-> IF p[1] = s THEN 0 ELSE size[p]]
    /\ content' = [p \in Paths |-> IF p[1] = s THEN <<>> ELSE content[p]]
    /\ dirFiles' = [dirFiles EXCEPT ![s] = @ \cup Special]
    /\ UNCHANGED prompted

\* Mutant: the entries in data stay.
Rmdir_KeepsData(s) ==
    /\ s \in dirAttrs
    /\ size' = [p \in Paths |-> IF p[1] = s /\ p[2] \in dirFiles[s] THEN -1 ELSE size[p]]
    /\ dirs' = dirs \ {s}
    /\ dirAttrs' = dirAttrs \ {s}
    /\ dirFiles' = [dirFiles EXCEPT ![s] = {}]
    /\ prompted' = [prompted EXCEPT ![s] = <<>>]
    /\ UNCHANGED content

Rmdir(s) ==
    LET listed(p) == p[1] = s /\ p[2] \in dirFiles[s] IN
    /\ s \in dirAttrs
    /\ size' = [p \in Paths |-> IF listed(p) THEN -1 ELSE size[p]]
    /\ content' = [p \in Paths |-> IF listed(p) THEN NoData ELSE content[p]]
    /\ dirs' = dirs \ {s}
    /\ dirAttrs' = dirAttrs \ {s}
    /\ dirFiles' = [dirFiles EXCEPT ![s] = {}]
    /\ prompted' = [prompted EXCEPT ![s] = <<>>]

Truncate(p, length) ==
    /\ size[p] # -1
    /\ content' = [content EXCEPT ![p] =
         SubSeq(Bytes(p), 1, IF length < Len(Bytes(p)) THEN length ELSE Len(Bytes(p)))]
    /\ size' = [size EXCEPT ![p] = length]
    /\ UNCHANGED <<dirs, dirAttrs, dirFiles, prompted>>

-----------------------------------------------------------------------------
(* write                                                                   *)

Written(old, offset, new) ==
    IF offset = 0 THEN new
    ELSE LET filled == old \o [i \in 1 .. offset - Len(old) |-> 0]
         IN  SubSeq(filled, 1, offset) \o new

\* _call_gpt_api turns every failure into text: whatever happens is an answer.
Answers(prompt) == {[i \in 1 .. n |-> prompt] : n \in 1 .. MaxAnswer}

NewSize(offset, new, input) ==
    IF offset + Len(new) > Len(input) THEN offset + Len(new) ELSE Len(input)

Prompt(s, input) == input

Write(s, offset, new) ==
    LET input == Written(Bytes(<<s, "input">>), offset, new) IN
    /\ size[<<s, "input">>] # -1
    /\ Len(input) <= MaxLen
    /\ \E response \in Answers(Prompt(s, input)) :
          /\ content' = [content EXCEPT ![<<s, "input">>] = input,
                                  ![<<s, "output">>] = response,
                                  ![<<s, "error">>] = <<>>]
          /\ size' = [size EXCEPT ![<<s, "input">>] = NewSize(offset, new, input),
                                  ![<<s, "output">>] = Len(response)]
    /\ prompted' = [prompted EXCEPT ![s] = input]
    /\ UNCHANGED <<dirs, dirAttrs, dirFiles>>

GptNext ==
    \E s \in Sessions :
        \/ Mkdir(s)
        \/ Rmdir(s)
        \/ \E p \in FilesOf(s), length \in 0 .. MaxLen : Truncate(p, length)
        \/ \E offset \in 0 .. MaxLen, new \in {<<1>>, <<1, 2>>} : Write(s, offset, new)

-----------------------------------------------------------------------------
(* Properties.                                                             *)

\* Every variable has its type.
GptTypeOK ==
    /\ size \in [Paths -> -1 .. MaxLen \cup 0 .. MaxAnswer]
    /\ dirs \subseteq Sessions /\ dirAttrs \subseteq Sessions
    /\ dirFiles \in [Sessions -> SUBSET Special]
    /\ \A p \in Paths : content[p] = NoData \/ Len(content[p]) <= MaxLen \/ Len(content[p]) <= MaxAnswer

\* The four maps describe one tree: what readdir shows can be looked up and has
\* data, and of a session that was removed nothing is left in any of them, so
\* that one made again under its name starts empty.
OneTree ==
    /\ dirs = dirAttrs
    /\ \A s \in Sessions, f \in Special :
          LET there == s \in dirs IN
          /\ (f \in dirFiles[s]) = there
          /\ (size[<<s, f>>] # -1) = there
          /\ (content[<<s, f>>] # NoData) = there

\* A reader, who is given no more bytes than st_size says, gets all the bytes
\* of a file: no operation leaves a size below the length of the data.
SizeCovers == \A p \in Paths : content[p] # NoData => size[p] >= Len(content[p])

\* What output holds is the answer, or after a truncate its beginning, to the
\* whole prompt as the last write left it, also when the prompt came in several
\* writes.
OutputAnswers ==
    \A s \in dirs : \A i \in 1 .. Len(Bytes(<<s, "output">>)) :
        Bytes(<<s, "output">>)[i] = prompted[s]

\* The directory tree, the sizes and the data of GPTfs agree with each other and
\* with the prompts, after any order of calls.
TreeSound == GptTypeOK /\ OneTree /\ SizeCovers /\ OutputAnswers
=============================================================================
