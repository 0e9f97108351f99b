------------------------------ MODULE TokenFile ------------------------------
(***************************************************************************)
(* save_atomic_token_file (security.py): the record is written to a        *)
(* temporary file whose name is built from the process number, and then    *)
(* renamed over the token file.  Processes that share the directory save   *)
(* at the same time, and may fail or be killed between any two steps.      *)
(*                                                                         *)
(* A file is an inode; a name leads to an inode, and a process that has a  *)
(* file open keeps its inode whatever becomes of the name.                 *)
(***************************************************************************)
EXTENDS Naturals

CONSTANTS
    Writers,    \* processes that save tokens
    Pid,        \* Pid[w]: os.getpid() of w, in its own container or not
    Records,    \* complete token records
    Inodes,     \* files that can exist at one time
    Old,        \* the record of an earlier authorisation
    None

Pids == {Pid[w] : w \in Writers}
Empty == "empty"     \* a file that was truncated, or just created
Torn == "torn"       \* a part of a record, or parts of two

ASSUME FileAssumption ==
    /\ Old \in Records
    /\ None \notin Writers \cup Records \cup Inodes
    /\ Empty \notin Records /\ Torn \notin Records

VARIABLES
    token,      \* the inode of the token file
    tmp,        \* tmp[p]: the inode of the temporary file of process number p
    content,    \* content[i]: what is in inode i
    save        \* save[w]: the save that w has in progress

files == <<token, tmp, content>>
fileVars == <<files, save>>

NoSave == [stage |-> "none", inode |-> None, record |-> None]

FileTypeOK ==
    /\ token \in Inodes \cup {None}
    /\ tmp \in [Pids -> Inodes \cup {None}]
    /\ content \in [Inodes -> Records \cup {Empty, Torn}]
    /\ save \in [Writers -> [stage : {"opened", "written"}, inode : Inodes, record : Records]
                              \cup {NoSave}]

\* There may be a token file already, and what a killed process left behind.
FileInit ==
    /\ content \in [Inodes -> {Old, Empty}]
    /\ token \in {i \in Inodes : content[i] = Old} \cup {None}
    /\ tmp \in [Pids -> Inodes \cup {None}]
    /\ \A p, q \in Pids : tmp[p] # None => tmp[p] # token /\ (tmp[p] = tmp[q] => p = q)
    /\ save = [w \in Writers |-> NoSave]

-----------------------------------------------------------------------------
\* Mutant: one temporary name for all.
TmpOf_Shared(w) == CHOOSE p \in Pids : TRUE

\* The temporary name is told apart by the process number only.
TmpOf(w) == Pid[w]

InUse(i) == token = i \/ (\E p \in Pids : tmp[p] = i) \/ (\E w \in Writers : save[w].inode = i)

\* Mutant: the temporary file is opened without O_TRUNC.
OpenTmp_NoTrunc(w, record) ==
    LET p == TmpOf(w)
    IN /\ save[w] = NoSave
       /\ \E i \in Inodes :
            /\ IF tmp[p] = None THEN ~InUse(i) ELSE i = tmp[p]
            /\ tmp' = [tmp EXCEPT ![p] = i]
            /\ content' = [content EXCEPT ![i] = IF tmp[p] = None THEN Empty ELSE @]
            /\ save' = [save EXCEPT ![w] = [stage |-> "opened", inode |-> i, record |-> record]]
       /\ UNCHANGED token

\* os.open(O_CREAT | O_TRUNC): a file with that name is emptied, otherwise a
\* new one is made.
OpenTmp(w, record) ==
    LET p == TmpOf(w)
    IN /\ save[w] = NoSave
       /\ \E i \in Inodes :
            /\ IF tmp[p] = None THEN ~InUse(i) ELSE i = tmp[p]
            /\ tmp' = [tmp EXCEPT ![p] = i]
            /\ content' = [content EXCEPT ![i] = Empty]
            /\ save' = [save EXCEPT ![w] = [stage |-> "opened", inode |-> i, record |-> record]]
       /\ UNCHANGED token

\* json.dump and the close that writes its buffer at the start of the file:
\* over what somebody else has put there, unless that was longer.
WriteTmp(w) ==
    LET i == save[w].inode
    IN /\ save[w].stage = "opened"
       /\ \E left \in {save[w].record} \cup (IF content[i] = Empty THEN {} ELSE {Torn}) :
            content' = [content EXCEPT ![i] = left]
       /\ save' = [save EXCEPT ![w].stage = "written"]
       /\ UNCHANGED <<token, tmp>>

\* The write raises (a full disk): the name is unlinked, wherever it leads.
FailWrite(w) ==
    LET i == save[w].inode
    IN /\ save[w].stage = "opened"
       /\ content' = [content EXCEPT ![i] = Torn]
       /\ tmp' = [tmp EXCEPT ![TmpOf(w)] = None]
       /\ save' = [save EXCEPT ![w] = NoSave]
       /\ UNCHANGED token

\* os.replace: the name moves, and the file that it replaces is gone.
Replace(w) ==
    /\ save[w].stage = "written"
    /\ tmp[TmpOf(w)] # None
    /\ token' = tmp[TmpOf(w)]
    /\ tmp' = [tmp EXCEPT ![TmpOf(w)] = None]
    /\ save' = [save EXCEPT ![w] = NoSave]
    /\ UNCHANGED content

\* os.replace raises: somebody else has moved the name away.
NothingToReplace(w) ==
    /\ save[w].stage = "written"
    /\ tmp[TmpOf(w)] = None
    /\ save' = [save EXCEPT ![w] = NoSave]
    /\ UNCHANGED files

\* The process is killed; its temporary file stays.
Killed(w) ==
    /\ save[w] # NoSave
    /\ save' = [save EXCEPT ![w] = NoSave]
    /\ UNCHANGED files

\* The rest of a save, once it has its file.
SaveStep(w) == WriteTmp(w) \/ FailWrite(w) \/ Replace(w) \/ NothingToReplace(w)

FileNext == \E w \in Writers : (\E r \in Records : OpenTmp(w, r)) \/ SaveStep(w) \/ Killed(w)

FileSpec == FileInit /\ [][FileNext]_fileVars

-----------------------------------------------------------------------------
\* Whoever opens the token file, at any moment, reads one complete record
\* that somebody saved: never nothing, a part, or a mixture, although writers
\* overlap, fail and are killed (security.py 209-226).
TokenFileWhole == token # None => content[token] \in Records

\* The token file is a register: a save puts its own record there in one step,
\* the os.replace, or has no effect.  What is in the file never changes in
\* another way, and no save installs what another one wrote.
Register ==
    INSTANCE TokenRegister WITH
        value <- IF token = None THEN None ELSE content[token],
        wanted <- [w \in Writers |-> save[w].record]

SavesAreAtomic == Register!Spec

\* Why: an open temporary file belongs to one writer, and to no other name.
NamesApart ==
    \A p \in Pids : tmp[p] # None =>
        /\ tmp[p] # token
        /\ \A q \in Pids : tmp[q] = tmp[p] => q = p

SavesApart ==
    \A w \in Writers : save[w] # NoSave =>
        /\ tmp[TmpOf(w)] = save[w].inode
        /\ content[save[w].inode] = IF save[w].stage = "opened" THEN Empty ELSE save[w].record

\* What it takes: no two writers have the same process number.
DistinctPids == \A v, w \in Writers : TmpOf(v) = TmpOf(w) => v = w

FileInv == FileTypeOK /\ TokenFileWhole /\ NamesApart /\ SavesApart
=============================================================================
