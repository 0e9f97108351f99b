------------------------- MODULE AuthorisationProofs -------------------------
(***************************************************************************)
(* Proofs about TokenFile and Authorisation, for every set of writers,     *)
(* records, codes and connections.                                         *)
(***************************************************************************)
EXTENDS Authorisation, TLAPS

\* The value of a save in progress, and what sets it apart from no save.
LEMMA SaveValues ==
    ASSUME FileTypeOK, NEW w \in Writers, save[w] # NoSave
    PROVE  /\ save[w].stage \in {"opened", "written"}
           /\ save[w].inode \in Inodes
           /\ save[w].record \in Records
  BY DEF FileTypeOK

\* FileTypeOK, TokenFileWhole, NamesApart and SavesApart hold at the start.
LEMMA FileInitInv == FileInit => FileInv
  <1> SUFFICES ASSUME FileInit PROVE FileInv
    OBVIOUS
  <1>1. FileTypeOK
    BY FileAssumption DEF FileInit, FileTypeOK, Empty
  <1>2. TokenFileWhole
    BY FileAssumption DEF FileInit, TokenFileWhole
  <1>3. NamesApart
    BY DEF FileInit, NamesApart
  <1>4. SavesApart
    BY DEF FileInit, SavesApart
  <1> QED
    BY <1>1, <1>2, <1>3, <1>4 DEF FileInv

\* Opening the temporary file: it is new, or what a killed process left under
\* the name; in both cases nobody else has it open.
LEMMA OpenTmpInv ==
    ASSUME DistinctPids, FileInv, NEW w \in Writers, NEW r \in Records, OpenTmp(w, r)
    PROVE  FileInv'
  <1> DEFINE p == TmpOf(w)
  <1>1. p \in Pids /\ \A v \in Writers : TmpOf(v) \in Pids
    BY DEF TmpOf, Pids
  <1>2. PICK i \in Inodes :
            /\ IF tmp[p] = None THEN ~InUse(i) ELSE i = tmp[p]
            /\ tmp' = [tmp EXCEPT ![p] = i]
            /\ content' = [content EXCEPT ![i] = Empty]
            /\ save' = [save EXCEPT ![w] = [stage |-> "opened", inode |-> i, record |-> r]]
    BY DEF OpenTmp, TmpOf
  <1>3. save[w] = NoSave /\ token' = token
    BY DEF OpenTmp
  <1>4. i # None
    BY FileAssumption
  <1>5. token # i
    BY <1>1, <1>2 DEF InUse, FileInv, NamesApart
  <1>6. \A q \in Pids \ {p} : tmp[q] # i
    BY <1>1, <1>2, <1>4 DEF InUse, FileInv, NamesApart
  <1>7. \A v \in Writers \ {w} : save[v] # NoSave => save[v].inode # i
    BY <1>1, <1>6 DEF DistinctPids, FileInv, SavesApart, InUse
  <1> DEFINE s == [stage |-> "opened", inode |-> i, record |-> r]
  <1>8. s \in [stage : {"opened", "written"}, inode : Inodes, record : Records]
        /\ s.stage = "opened" /\ s.inode = i
    OBVIOUS
  <1> HIDE DEF s, p
  <1>9. tmp' = [tmp EXCEPT ![p] = i] /\ save' = [save EXCEPT ![w] = s]
    BY <1>2 DEF s
  <1>10. FileTypeOK'
    BY <1>1, <1>2, <1>3, <1>8, <1>9 DEF FileInv, FileTypeOK
  <1>none. TokenFileWhole'
    BY <1>2, <1>3, <1>5 DEF FileInv, TokenFileWhole, FileTypeOK
  <1>12. NamesApart'
    BY <1>1, <1>3, <1>5, <1>6, <1>9 DEF FileInv, NamesApart, FileTypeOK
  <1>13. SavesApart'
    <2> SUFFICES ASSUME NEW v \in Writers, save'[v] # NoSave
                 PROVE  /\ tmp'[TmpOf(v)] = save'[v].inode
                        /\ content'[save'[v].inode]
                             = IF save'[v].stage = "opened" THEN Empty ELSE save'[v].record
      BY DEF SavesApart, TmpOf
    <2>1. CASE v = w
      BY <1>1, <1>2, <1>8, <1>9, <2>1 DEF FileInv, FileTypeOK, p
    <2>2. CASE v # w
      <3>1. save'[v] = save[v] /\ TmpOf(v) # p
        BY <1>9, <2>2 DEF FileInv, FileTypeOK, DistinctPids, p
      <3>2. save[v].inode \in Inodes /\ save[v].inode # i
        BY <1>7, <2>2, <3>1, SaveValues DEF FileInv
      <3> QED
        BY <1>1, <1>2, <1>9, <3>1, <3>2 DEF FileInv, FileTypeOK, SavesApart
    <2> QED
      BY <2>1, <2>2
  <1> QED
    BY <1>10, <1>none, <1>12, <1>13 DEF FileInv

\* Writing: the file is still empty, so what is left is the record itself.
LEMMA WriteTmpInv ==
    ASSUME DistinctPids, FileInv, NEW w \in Writers, WriteTmp(w)
    PROVE  FileInv'
  <1> DEFINE i == save[w].inode
             s == [save[w] EXCEPT !.stage = "written"]
  <1>1. save[w] # NoSave /\ save[w].stage = "opened"
    BY DEF WriteTmp, NoSave
  <1>2. i \in Inodes /\ save[w].record \in Records /\ tmp[TmpOf(w)] = i /\ content[i] = Empty
    BY <1>1, SaveValues DEF FileInv, SavesApart
  <1>3. content' = [content EXCEPT ![i] = save[w].record]
    BY <1>2 DEF WriteTmp
  <1>4. /\ s \in [stage : {"opened", "written"}, inode : Inodes, record : Records]
        /\ s.stage = "written" /\ s.inode = i /\ s.record = save[w].record
    BY <1>1 DEF FileInv, FileTypeOK
  <1>5. save' = [save EXCEPT ![w] = s] /\ token' = token /\ tmp' = tmp
    BY DEF WriteTmp
  <1>6. \A v \in Writers : TmpOf(v) \in Pids
    BY DEF TmpOf, Pids
  <1>7. token # i
    BY <1>2, <1>6, FileAssumption DEF FileInv, NamesApart
  <1> HIDE DEF s, i
  <1>8. FileTypeOK'
    BY <1>2, <1>3, <1>4, <1>5 DEF FileInv, FileTypeOK
  <1>9. TokenFileWhole'
    BY <1>2, <1>3, <1>5, <1>7 DEF FileInv, TokenFileWhole, FileTypeOK
  <1>10. NamesApart'
    BY <1>5 DEF FileInv, NamesApart
  <1>none. SavesApart'
    <2> SUFFICES ASSUME NEW v \in Writers, save'[v] # NoSave
                 PROVE  /\ tmp'[TmpOf(v)] = save'[v].inode
                        /\ content'[save'[v].inode]
                             = IF save'[v].stage = "opened" THEN Empty ELSE save'[v].record
      BY DEF SavesApart, TmpOf
    <2>1. CASE v = w
      BY <1>2, <1>3, <1>4, <1>5, <2>1 DEF FileInv, FileTypeOK
    <2>2. CASE v # w
      <3>1. save'[v] = save[v]
        BY <1>5, <2>2 DEF FileInv, FileTypeOK
      <3>2. save[v].inode \in Inodes /\ tmp[TmpOf(v)] = save[v].inode
        BY <3>1, SaveValues DEF FileInv, SavesApart
      <3>3. TmpOf(v) # TmpOf(w)
        BY <2>2 DEF DistinctPids
      <3>4. save[v].inode # i
        BY <1>2, <1>6, <3>2, <3>3, FileAssumption DEF FileInv, NamesApart
      <3> QED
        BY <1>3, <1>5, <3>1, <3>2, <3>4 DEF FileInv, FileTypeOK, SavesApart
    <2> QED
      BY <2>1, <2>2
  <1> QED
    BY <1>8, <1>9, <1>10, <1>none DEF FileInv
\* The write fails: the temporary file goes, which is nobody else's.
LEMMA FailWriteInv ==
    ASSUME DistinctPids, FileInv, NEW w \in Writers, FailWrite(w)
    PROVE  FileInv'
  <1> DEFINE i == save[w].inode
  <1>1. save[w] # NoSave /\ i \in Inodes /\ tmp[TmpOf(w)] = i
    BY SaveValues DEF FailWrite, NoSave, FileInv, SavesApart
  <1>2. /\ content' = [content EXCEPT ![i] = Torn]
        /\ tmp' = [tmp EXCEPT ![TmpOf(w)] = None]
        /\ save' = [save EXCEPT ![w] = NoSave]
        /\ token' = token
    BY DEF FailWrite
  <1>3. \A v \in Writers : TmpOf(v) \in Pids
    BY DEF TmpOf, Pids
  <1>4. token # i
    BY <1>1, <1>3, FileAssumption DEF FileInv, NamesApart
  <1> HIDE DEF i
  <1>5. FileTypeOK'
    BY <1>1, <1>2, <1>3 DEF FileInv, FileTypeOK
  <1>6. TokenFileWhole'
    BY <1>1, <1>2, <1>4 DEF FileInv, TokenFileWhole, FileTypeOK
  <1>7. NamesApart'
    BY <1>2, <1>3 DEF FileInv, NamesApart, FileTypeOK
  <1>8. SavesApart'
    <2> SUFFICES ASSUME NEW v \in Writers, save'[v] # NoSave
                 PROVE  /\ tmp'[TmpOf(v)] = save'[v].inode
                        /\ content'[save'[v].inode]
                             = IF save'[v].stage = "opened" THEN Empty ELSE save'[v].record
      BY DEF SavesApart, TmpOf
    <2>1. v # w /\ save'[v] = save[v]
      BY <1>2 DEF FileInv, FileTypeOK
    <2>2. save[v].inode \in Inodes /\ tmp[TmpOf(v)] = save[v].inode
      BY <2>1, SaveValues DEF FileInv, SavesApart
    <2>3. TmpOf(v) # TmpOf(w)
      BY <2>1 DEF DistinctPids
    <2>4. save[v].inode # i
      BY <1>1, <1>3, <2>2, <2>3, FileAssumption DEF FileInv, NamesApart
    <2> QED
      BY <1>2, <1>3, <2>1, <2>2, <2>3, <2>4 DEF FileInv, FileTypeOK, SavesApart
  <1> QED
    BY <1>5, <1>6, <1>7, <1>8 DEF FileInv

\* The rename: the file that gets the token file's name holds the record.
LEMMA ReplaceInv ==
    ASSUME DistinctPids, FileInv, NEW w \in Writers, Replace(w)
    PROVE  /\ FileInv'
           /\ content'[token'] = save[w].record
  <1> DEFINE i == save[w].inode
  <1>1. save[w] # NoSave /\ i \in Inodes /\ tmp[TmpOf(w)] = i
    BY SaveValues DEF Replace, NoSave, FileInv, SavesApart
  <1>2. content[i] = save[w].record /\ save[w].record \in Records
    BY <1>1, SaveValues DEF Replace, FileInv, SavesApart
  <1>3. /\ token' = i
        /\ tmp' = [tmp EXCEPT ![TmpOf(w)] = None]
        /\ save' = [save EXCEPT ![w] = NoSave]
        /\ content' = content
    BY <1>1 DEF Replace
  <1>4. \A v \in Writers : TmpOf(v) \in Pids
    BY DEF TmpOf, Pids
  <1>5. i # None
    BY <1>1, FileAssumption
  <1> HIDE DEF i
  <1>6. FileTypeOK'
    BY <1>1, <1>3, <1>4 DEF FileInv, FileTypeOK
  <1>7. TokenFileWhole'
    BY <1>2, <1>3 DEF TokenFileWhole
  <1>8. NamesApart'
    BY <1>1, <1>3, <1>4, <1>5 DEF FileInv, NamesApart, FileTypeOK
  <1>9. SavesApart'
    <2> SUFFICES ASSUME NEW v \in Writers, save'[v] # NoSave
                 PROVE  /\ tmp'[TmpOf(v)] = save'[v].inode
                        /\ content'[save'[v].inode]
                             = IF save'[v].stage = "opened" THEN Empty ELSE save'[v].record
      BY DEF SavesApart, TmpOf
    <2>1. v # w /\ save'[v] = save[v] /\ TmpOf(v) # TmpOf(w)
      BY <1>3 DEF FileInv, FileTypeOK, DistinctPids
    <2> QED
      BY <1>3, <1>4, <2>1 DEF FileInv, FileTypeOK, SavesApart
  <1> QED
    BY <1>2, <1>3, <1>6, <1>7, <1>8, <1>9 DEF FileInv

\* A save that is over, or whose process was killed, leaves the files alone.
LEMMA EndSaveInv ==
    ASSUME FileInv, NEW w \in Writers, save' = [save EXCEPT ![w] = NoSave], UNCHANGED files
    PROVE  FileInv'
  <1> USE DEF files
  <1>1. FileTypeOK'
    BY DEF FileInv, FileTypeOK
  <1>2. TokenFileWhole' /\ NamesApart'
    BY DEF FileInv, TokenFileWhole, NamesApart
  <1>3. SavesApart'
    BY DEF FileInv, FileTypeOK, SavesApart, TmpOf
  <1> QED
    BY <1>1, <1>2, <1>3 DEF FileInv

\* Every step of every writer preserves FileInv.
LEMMA FileNextInv ==
    ASSUME DistinctPids, FileInv, [FileNext]_fileVars
    PROVE  FileInv'
  <1>1. ASSUME NEW w \in Writers, NEW r \in Records, OpenTmp(w, r) PROVE FileInv'
    BY <1>1, OpenTmpInv
  <1>2. ASSUME NEW w \in Writers, SaveStep(w) PROVE FileInv'
    <2>1. CASE WriteTmp(w)
      BY <2>1, WriteTmpInv
    <2>2. CASE FailWrite(w)
      BY <2>2, FailWriteInv
    <2>3. CASE Replace(w)
      BY <2>3, ReplaceInv
    <2>4. CASE NothingToReplace(w)
      BY <2>4, EndSaveInv DEF NothingToReplace
    <2> QED
      BY <1>2, <2>1, <2>2, <2>3, <2>4 DEF SaveStep
  <1>3. ASSUME NEW w \in Writers, Killed(w) PROVE FileInv'
    BY <1>3, EndSaveInv DEF Killed
  <1>4. CASE UNCHANGED fileVars
    BY <1>4 DEF fileVars, files, FileInv, FileTypeOK, TokenFileWhole, NamesApart, SavesApart, TmpOf
  <1> QED
    BY <1>1, <1>2, <1>3, <1>4 DEF FileNext
-----------------------------------------------------------------------------
\* What a run relies on needs nothing of the process numbers; what is in the
\* files does.
RunInv == TypeOK /\ OwnPage /\ OneWelcome

\* The inductive invariant of a command and servers around one token file.
AuthInv == RunInv /\ FileInv

LEMMA InitInv == Init => AuthInv
  <1> SUFFICES ASSUME Init PROVE AuthInv
    OBVIOUS
  <1>1. FileInv
    BY FileInitInv DEF Init
  <1>2. RunInv
    BY <1>1, AuthAssumption DEF Init, TypeOK, Stages, Pending, Cancelled, FileInv, OwnPage, OneWelcome, RunInv
  <1> QED
    BY <1>1, <1>2 DEF AuthInv

\* Steps of writers keep the types of the files, whatever their numbers are.
LEMMA FileTypesKept ==
    ASSUME FileTypeOK, [FileNext]_fileVars
    PROVE  FileTypeOK'
  <1>1. ASSUME NEW w \in Writers, NEW r \in Records, OpenTmp(w, r) PROVE FileTypeOK'
    BY <1>1 DEF FileTypeOK, OpenTmp, TmpOf, Pids, NoSave
  <1>2. ASSUME NEW w \in Writers, save[w] # NoSave, WriteTmp(w) \/ FailWrite(w) PROVE FileTypeOK'
    <2>1. save[w].inode \in Inodes /\ save[w].record \in Records
      BY <1>2, SaveValues
    <2>2. CASE WriteTmp(w)
      <3>1. save[w] \in [stage : {"opened", "written"}, inode : Inodes, record : Records]
        BY <1>2 DEF FileTypeOK
      <3>2. [save[w] EXCEPT !.stage = "written"]
              \in [stage : {"opened", "written"}, inode : Inodes, record : Records]
        BY <3>1
      <3>3. save' = [save EXCEPT ![w] = [save[w] EXCEPT !.stage = "written"]]
        BY <2>2 DEF WriteTmp
      <3>4. save' \in [Writers -> [stage : {"opened", "written"}, inode : Inodes, record : Records]
                                    \cup {NoSave}]
        BY <3>2, <3>3 DEF FileTypeOK
      <3>5. content' \in [Inodes -> Records \cup {Empty, Torn}]
        BY <2>1, <2>2 DEF FileTypeOK, WriteTmp
      <3> QED
        BY <2>2, <3>4, <3>5 DEF FileTypeOK, WriteTmp
    <2>3. CASE FailWrite(w)
      BY <2>1, <2>3 DEF FileTypeOK, FailWrite, TmpOf, Pids, NoSave
    <2> QED
      BY <1>2, <2>2, <2>3
  <1>3. ASSUME NEW w \in Writers, WriteTmp(w) \/ FailWrite(w) PROVE save[w] # NoSave
    BY <1>3 DEF WriteTmp, FailWrite, NoSave
  <1>4. ASSUME NEW w \in Writers, Replace(w) PROVE FileTypeOK'
    BY <1>4 DEF FileTypeOK, Replace, TmpOf, Pids, NoSave
  <1>5. ASSUME NEW w \in Writers, NothingToReplace(w) \/ Killed(w) PROVE FileTypeOK'
    BY <1>5 DEF FileTypeOK, NothingToReplace, Killed, NoSave, files
  <1>6. CASE UNCHANGED fileVars
    BY <1>6 DEF FileTypeOK, fileVars, files
  <1> QED
    BY <1>1, <1>2, <1>3, <1>4, <1>5, <1>6 DEF FileNext, SaveStep

\* What the command and the servers do to files is what writers do.
LEMMA StepOfFiles ==
    ASSUME RunInv, Next
    PROVE  [FileNext]_fileVars
  <1> USE AuthAssumption
  <1>1. CASE Exchange
    BY <1>1 DEF Exchange, RunInv, OneWelcome, FileNext
  <1>2. CASE SaveTokens
    BY <1>2 DEF SaveTokens, FileNext
  <1>3. CASE Interrupt
    <2>1. CASE save[Command] = NoSave
      BY <1>3, <2>1 DEF Interrupt, fileVars, RunInv, TypeOK, FileTypeOK
    <2>2. CASE save[Command] # NoSave
      BY <1>3, <2>2 DEF Interrupt, FileNext, Killed
    <2> QED
      BY <2>1, <2>2
  <1>4. CASE \E w \in Writers : ServerSaves(w)
    BY <1>4 DEF ServerSaves, FileNext
  <1>5. CASE Start \/ TakeCode \/ TimeOut \/ Closed \/ ExchangeFails \/ PortStep
             \/ (\E c \in Codes : Agree(c)) \/ (\E k \in Slots : Connect(k))
    BY <1>5 DEF Start, TakeCode, TimeOut, Closed, ExchangeFails, PortStep, Agree, Connect,
                CloseConnection, OtherRequest, Callback
  <1> QED
    BY <1>1, <1>2, <1>3, <1>4, <1>5 DEF Next, CommandStep

\* The state variables of the command keep their types, and the code that it
\* holds comes from its own page and was the only one welcomed.
LEMMA StepOfFlow ==
    ASSUME RunInv, Next, FileTypeOK'
    PROVE  RunInv'
  <1> USE AuthAssumption
  <1> USE DEF RunInv, TypeOK, Stages, Pending, Cancelled, OwnPage, OneWelcome
  <1>1. CASE Start
    BY <1>1 DEF Start
  <1>2. CASE Interrupt
    BY <1>2 DEF Interrupt
  <1>3. CASE TakeCode
    BY <1>3 DEF TakeCode, port
  <1>4. CASE TimeOut
    BY <1>4 DEF TimeOut
  <1>5. CASE Closed
    BY <1>5 DEF Closed, port
  <1>6. CASE Exchange
    BY <1>6 DEF Exchange, port
  <1>7. CASE ExchangeFails
    BY <1>7 DEF ExchangeFails, port
  <1>8. CASE SaveTokens
    BY <1>8 DEF SaveTokens, port
  <1>9. ASSUME NEW k \in Slots, CloseConnection(k) \/ OtherRequest(k) \/ Connect(k)
        PROVE  RunInv'
    BY <1>9 DEF CloseConnection, OtherRequest, Connect
  <1>10. ASSUME NEW k \in Slots, NEW r \in Redirects, Callback(k, r)
         PROVE  RunInv'
    <2>1. r.code \in Codes /\ r.state = sentTo[r.code]
      BY DEF Redirects
    <2>2. CASE Accepted(r)
      BY <1>10, <2>1, <2>2, ZenonT(40) DEF Callback, Accepted
    <2>3. CASE ~Accepted(r)
      BY <1>10, <2>3 DEF Callback
    <2> QED
      BY <2>2, <2>3
  <1>none. ASSUME NEW c \in Codes, Agree(c)
         PROVE  RunInv'
    <2>1. PICK r \in 1 .. run : sentTo' = [sentTo EXCEPT ![c] = r]
      BY <1>none DEF Agree
    <2>2. run \in Nat /\ r \in Nat /\ r # 0 /\ r \in 0 .. MaxRuns /\ run # 0
      OBVIOUS
    <2>3. future \in Codes => future # c
      BY <1>none, <2>2 DEF Agree
    <2> QED
      BY <1>none, <2>1, <2>2, <2>3 DEF Agree, port
  <1>12. ASSUME NEW w \in Writers, ServerSaves(w)
         PROVE  RunInv'
    BY <1>12 DEF ServerSaves, port
  <1> QED
    BY <1>1, <1>2, <1>3, <1>4, <1>5, <1>6, <1>7, <1>8, <1>9, <1>10, <1>none, <1>12
       DEF Next, CommandStep, PortStep

LEMMA RunStep ==
    ASSUME RunInv, [Next]_vars
    PROVE  RunInv'
  <1>1. CASE Next
    <2>1. FileTypeOK'
      BY <1>1, StepOfFiles, FileTypesKept DEF RunInv, TypeOK
    <2> QED
      BY <1>1, <2>1, StepOfFlow
  <1>2. CASE UNCHANGED vars
    BY <1>2 DEF vars, fileVars, files, RunInv, TypeOK, FileTypeOK, OwnPage, OneWelcome
  <1> QED
    BY <1>1, <1>2

LEMMA StepInv ==
    ASSUME DistinctPids, AuthInv, [Next]_vars
    PROVE  AuthInv'
  <1>1. [FileNext]_fileVars
    BY StepOfFiles DEF AuthInv, vars
  <1> QED
    BY <1>1, RunStep, FileNextInv DEF AuthInv

LEMMA AlwaysRun == Spec => []RunInv
  <1>1. Init => RunInv
    BY InitInv DEF AuthInv
  <1>2. RunInv /\ [Next]_vars => RunInv'
    BY RunStep
  <1> QED
    BY <1>1, <1>2, PTL DEF Spec

\* With distinct process numbers the whole invariant holds always.
LEMMA AlwaysInv == DistinctPids => (Spec => []AuthInv)
  <1> SUFFICES ASSUME DistinctPids PROVE Spec => []AuthInv
    OBVIOUS
  <1>1. AuthInv /\ [Next]_vars => AuthInv'
    BY StepInv
  <1> QED
    BY InitInv, <1>1, PTL DEF Spec

\* save_atomic_token_file (security.py 209-226): when no two processes that
\* share the directory have the same number, the token file is a complete
\* record at every moment, whoever saves, fails or is killed meanwhile.
THEOREM TokenFileIsWhole == DistinctPids => (Spec => []TokenFileWhole)
  <1> SUFFICES ASSUME DistinctPids PROVE Spec => []TokenFileWhole
    OBVIOUS
  <1>1. AuthInv => TokenFileWhole
    BY DEF AuthInv, FileInv
  <1> QED
    BY AlwaysInv, <1>1, PTL

\* The types of the command, the port and the files.
THEOREM AuthorisationTypes == Spec => []TypeOK
  <1>1. RunInv => TypeOK
    BY DEF RunInv
  <1> QED
    BY AlwaysRun, <1>1, PTL

\* _process_callback_request (auth.py 47-57): the code that a run exchanges
\* was issued for the page of that run.
THEOREM CodeIsOfOwnPage == Spec => []OwnPage
  <1>1. RunInv => OwnPage
    BY DEF RunInv
  <1> QED
    BY AlwaysRun, <1>1, PTL

\* _process_callback_request (auth.py 54-57): one browser at most is told that
\* the run is authorised, the one whose code the run holds.
THEOREM OneBrowserIsWelcomed == Spec => []OneWelcome
  <1>1. RunInv => OneWelcome
    BY DEF RunInv
  <1> QED
    BY AlwaysRun, <1>1, PTL

\* save_atomic_token_file (security.py 209-226): with process numbers of their
\* own, writers see a register.  A save installs its own record in one step or
\* has no effect, and nothing else changes what the token file says.
LEMMA RegisterInit == FileInit => Register!Init
  <1> SUFFICES ASSUME FileInit PROVE Register!Init
    OBVIOUS
  <1>1. (IF token = None THEN None ELSE content[token]) \in {Old, None}
    BY DEF FileInit
  <1>2. [w \in Writers |-> save[w].record] = [w \in Writers |-> None]
    BY DEF FileInit, NoSave
  <1> QED
    BY <1>1, <1>2 DEF Register!Init

LEMMA RegisterStep ==
    ASSUME DistinctPids, FileInv, FileNext
    PROVE  [Register!Next]_Register!vars
  <1> DEFINE value == IF token = None THEN None ELSE content[token]
             wanted == [w \in Writers |-> save[w].record]
             value2 == IF token' = None THEN None ELSE content'[token']
             wanted2 == [w \in Writers |-> save'[w].record]
  <1>1. \A w \in Writers : TmpOf(w) \in Pids
    BY DEF TmpOf, Pids
  <1>2. \A w \in Writers : save[w] # NoSave =>
             save[w].inode \in Inodes /\ tmp[TmpOf(w)] = save[w].inode /\ save[w].inode # token
    BY <1>1, SaveValues, FileAssumption DEF FileInv, SavesApart, NamesApart
  <1>3. \A w \in Writers : save[w] # NoSave => save[w].record \in Records /\ save[w].record # None
    BY SaveValues, FileAssumption DEF FileInv
  <1>4. ASSUME NEW w \in Writers, NEW s, NEW r, s.record = r, save' = [save EXCEPT ![w] = s]
        PROVE  wanted2 = [wanted EXCEPT ![w] = r]
    BY <1>4 DEF FileInv, FileTypeOK
  <1>none. NoSave.record = None
    BY DEF NoSave
  <1>5. ASSUME NEW w \in Writers, NEW r \in Records, OpenTmp(w, r) PROVE Register!Begin(w, r)
    <2>1. save[w] = NoSave /\ token' = token
      BY <1>5 DEF OpenTmp
    <2>2. PICK i \in Inodes :
              /\ IF tmp[TmpOf(w)] = None THEN ~InUse(i) ELSE i = tmp[TmpOf(w)]
              /\ content' = [content EXCEPT ![i] = Empty]
              /\ save' = [save EXCEPT ![w] = [stage |-> "opened", inode |-> i, record |-> r]]
      BY <1>5 DEF OpenTmp
    <2>3. i # token
      BY <1>1, <2>2 DEF InUse, FileInv, NamesApart
    <2>4. value2 = value
      BY <2>1, <2>2, <2>3 DEF FileInv, FileTypeOK
    <2>5. wanted2 = [wanted EXCEPT ![w] = r]
      <3>1. [stage |-> "opened", inode |-> i, record |-> r].record = r
        OBVIOUS
      <3> HIDE DEF wanted, wanted2
      <3> QED
        BY <1>4, <2>2, <3>1
    <2>6. wanted[w] = None
      BY <2>1 DEF NoSave
    <2> QED
      BY <2>4, <2>5, <2>6 DEF Register!Begin
  <1>6. ASSUME NEW w \in Writers, WriteTmp(w) PROVE wanted2 = wanted /\ value2 = value
    <2>1. save[w] # NoSave /\ token' = token
      BY <1>6 DEF WriteTmp, NoSave
    <2>2. save' = [save EXCEPT ![w] = [save[w] EXCEPT !.stage = "written"]]
      BY <1>6 DEF WriteTmp
    <2>3. \A v \in Writers : save'[v].record = save[v].record
      BY <2>1, <2>2, SaveValues DEF FileInv, FileTypeOK
    <2>4. \A i \in Inodes : i # save[w].inode => content'[i] = content[i]
      BY <1>6 DEF WriteTmp, FileInv, FileTypeOK
    <2>5. value2 = value
      BY <1>2, <2>1, <2>4 DEF FileInv, FileTypeOK
    <2> QED
      BY <2>3, <2>5
  <1>7. ASSUME NEW w \in Writers, FailWrite(w) PROVE Register!GiveUp(w)
    <2>1. save[w] # NoSave /\ token' = token
      BY <1>7 DEF FailWrite, NoSave
    <2>2. content' = [content EXCEPT ![save[w].inode] = Torn] /\ save' = [save EXCEPT ![w] = NoSave]
      BY <1>7 DEF FailWrite
    <2>3. value2 = value
      BY <1>2, <2>1, <2>2 DEF FileInv, FileTypeOK
    <2>4. wanted2 = [wanted EXCEPT ![w] = None]
      BY <1>4, <1>none, <2>2
    <2> QED
      BY <1>3, <2>1, <2>3, <2>4 DEF Register!GiveUp
  <1>8. ASSUME NEW w \in Writers, Replace(w) PROVE Register!Install(w)
    <2>1. save[w] # NoSave /\ save' = [save EXCEPT ![w] = NoSave]
      BY <1>8 DEF Replace, NoSave
    <2>2. wanted2 = [wanted EXCEPT ![w] = None]
      BY <1>4, <1>none, <2>1
    <2>3. token' = save[w].inode /\ token' # None
      BY <1>2, <1>8, <2>1, FileAssumption DEF Replace
    <2>4. content'[token'] = save[w].record
      BY <1>8, ReplaceInv
    <2> QED
      BY <1>3, <2>1, <2>2, <2>3, <2>4 DEF Register!Install
  <1>9. ASSUME NEW w \in Writers, save[w] # NoSave, save' = [save EXCEPT ![w] = NoSave], UNCHANGED files
        PROVE  Register!GiveUp(w)
    <2>1. value2 = value
      BY <1>9 DEF files
    <2>2. wanted2 = [wanted EXCEPT ![w] = None]
      BY <1>4, <1>none, <1>9
    <2> QED
      BY <1>3, <1>9, <2>1, <2>2 DEF Register!GiveUp
  <1>10. ASSUME NEW w \in Writers, NothingToReplace(w) \/ Killed(w) PROVE Register!GiveUp(w)
    BY <1>9, <1>10 DEF NothingToReplace, Killed, NoSave
  <1> QED
    BY <1>5, <1>6, <1>7, <1>8, <1>10 DEF FileNext, SaveStep, Register!Next, Register!vars

\* The command and its servers implement the register.
THEOREM FileIsRegister == DistinctPids => (Spec => SavesAreAtomic)
  <1> SUFFICES ASSUME DistinctPids PROVE Spec => SavesAreAtomic
    OBVIOUS
  <1>1. Init => Register!Init
    BY RegisterInit DEF Init
  <1>2. AuthInv /\ [Next]_vars => [Register!Next]_Register!vars
    <2> SUFFICES ASSUME AuthInv, [Next]_vars PROVE [Register!Next]_Register!vars
      OBVIOUS
    <2>1. [FileNext]_fileVars
      BY StepOfFiles DEF AuthInv, vars
    <2>2. CASE UNCHANGED fileVars
      BY <2>2 DEF fileVars, files, Register!vars
    <2> QED
      BY <2>1, <2>2, RegisterStep DEF AuthInv
  <1> QED
    BY AlwaysInv, <1>1, <1>2, PTL DEF Spec, SavesAreAtomic, Register!Spec
=============================================================================
