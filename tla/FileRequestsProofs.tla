-------------------------- MODULE FileRequestsProofs --------------------------
(***************************************************************************)
(* The invariants of FileRequests, for any number of requests, any tree of *)
(* names and ways to write a path.                                         *)
(***************************************************************************)
EXTENDS FileRequests, TLAPS

-------------------------------------------------------------------------------
(* A request's own life.                                                   *)

\* A request is nothing before it is asked; after it, its operation and path
\* are those of the caller; it has a reply exactly when the device answered,
\* and one that fits its operation.
Life ==
  \A r \in Requests :
    /\ stage[r] = "idle" /\ response[r] = "none" => op[r] = Nothing
    /\ stage[r] # "idle" => op[r] \in Ops /\ path[r] \in VirtualPaths
    /\ reply[r] # Nothing <=> stage[r] = "answered"
    /\ reply[r] = "null" => op[r] = "read_file"
    /\ reply[r] \in {"ok", "failed"} => op[r] \in {"rm", "write_file"}
    /\ op[r] = "write_file" => reply[r] \in {Nothing, "ok", "failed"}
    /\ Acknowledged(r) => reply[r] # Nothing /\ response[r] = Told(r)
    /\ \A q \in before[r] : stage[q] = "answered"
    /\ stage[r] \in {"statted", "ensured", "opened"} => op[r] = "write_file" /\ Named(r) \in Nodes
    /\ stage[r] = "reading" => op[r] = "read_file" /\ Named(r) \in Nodes

\* The target of a path is never a file outside.
LEMMA TargetsAreAllowed ==
  \A v \in VirtualPaths : Target[v] \in Nodes => Target[v] \notin Outside
  BY FileRequestsAssumption DEF Target, ResolveAndValidate, Outside

\* What a caller is told is an answer of the device, never that there is none.
LEMMA ToldOfReply ==
  ASSUME TypeOK, Life, NEW r \in Requests, reply[r] # Nothing
  PROVE  Told(r) \in Responses \ ({"none", "timeout"} \cup Refusals)
<1>1. reply[r] \in Replies
  BY DEF TypeOK
<1>2. Replies \cap ({"none", "timeout"} \cup Refusals) = {}
  BY FileRequestsAssumption DEF Replies, Refusals, Whole, Words
<1>3. CASE op[r] \in {"rm", "set_file", "write_file"}
  BY <1>3 DEF Told, Responses, Refusals
<1>4. CASE op[r] = "read_file" /\ reply[r] = "null"
  BY <1>4 DEF Told, Responses, Refusals
<1>5. CASE op[r] \notin {"rm", "set_file", "write_file"} /\ ~(op[r] = "read_file" /\ reply[r] = "null")
  <2>1. Told(r) = reply[r]
    BY <1>5 DEF Told
  <2>2. reply[r] \notin {"null", "ok", "failed"}
    BY <1>5 DEF Life
  <2> QED BY <1>1, <1>2, <2>1, <2>2 DEF Responses
<1> QED BY <1>3, <1>4, <1>5

\* The words of an answer.
LEMMA AnswersAreReplies ==
  /\ {"ok", "failed", "null", "entries", "no entries", "torn"} \subseteq Replies \ {Nothing}
  /\ Whole \subseteq Replies \ {Nothing}
  BY FileRequestsAssumption DEF Replies, Whole, Words

\* Requests are none of the words of a name, a content or an answer.
LEMMA RequestsAreNoWords ==
  /\ \A r \in Requests : r \notin {"absent", "folder", "private", "partial", "mixed", "torn",
                                  "null", "ok", "failed", "entries", "no entries"}
  /\ Nothing \notin Ops /\ Nothing \notin Files /\ Nothing \notin Contents
  /\ Nothing \notin {"ok", "failed", "null", "torn", "private"}
  BY FileRequestsAssumption DEF Words, Ops, Files, Contents, Whole

FsTyped ==
  /\ node \in [Nodes -> {"absent", "folder"} \cup Files]
  /\ data \in [Files -> Contents]
  /\ handle \in [Requests -> Files \cup {Nothing}]
  /\ seen \in [Requests -> SUBSET Contents]

AnswerFits(r, a) ==
  /\ a = "null" => op[r] = "read_file"
  /\ a \in {"ok", "failed"} => op[r] \in {"rm", "write_file"}
  /\ op[r] = "write_file" => a \in {"ok", "failed"}

\* A device step that answers request r.
LEMMA AnswerStep ==
  ASSUME TypeOK, Life, FsTyped', NEW r \in Requests, stage[r] \notin {"idle", "answered"},
         NEW a \in Replies \ {Nothing}, AnswerFits(r, a), Answer(r, a),
         UNCHANGED << op, path, response, before >>
  PROVE  TypeOK' /\ Life'
<1>1. TypeOK'
  BY DEF TypeOK, FsTyped, Answer, Stages
<1>2. \A q \in Requests :
        /\ stage'[q] = IF q = r THEN "answered" ELSE stage[q]
        /\ reply'[q] = IF q = r THEN a ELSE reply[q]
        /\ Acknowledged(q)' <=> Acknowledged(q)
        /\ q # r => (Told(q)' = Told(q))
        /\ Named(q)' = Named(q)
  BY DEF TypeOK, Answer, Acknowledged, Told, Named
<1>3. ~Acknowledged(r)
  BY DEF Life
<1>4. ASSUME NEW q \in Requests
      PROVE  /\ stage'[q] = "idle" /\ response'[q] = "none" => op'[q] = Nothing
             /\ stage'[q] # "idle" => op'[q] \in Ops /\ path'[q] \in VirtualPaths
             /\ reply'[q] # Nothing <=> stage'[q] = "answered"
             /\ reply'[q] = "null" => op'[q] = "read_file"
             /\ reply'[q] \in {"ok", "failed"} => op'[q] \in {"rm", "write_file"}
             /\ op'[q] = "write_file" => reply'[q] \in {Nothing, "ok", "failed"}
             /\ \A p \in before'[q] : stage'[p] = "answered"
             /\ stage'[q] \in {"statted", "ensured", "opened"} =>
                  op'[q] = "write_file" /\ Named(q)' \in Nodes
             /\ stage'[q] = "reading" => op'[q] = "read_file" /\ Named(q)' \in Nodes
  BY <1>2 DEF Life, TypeOK, AnswerFits
<1>5. ASSUME NEW q \in Requests, Acknowledged(q)'
      PROVE  reply'[q] # Nothing /\ response'[q] = Told(q)'
  BY <1>2, <1>3, <1>5 DEF Life
<1> QED BY <1>1, <1>4, <1>5 DEF Life

\* A device step that does not answer.
LEMMA GotoStep ==
  ASSUME TypeOK, Life, FsTyped', NEW r \in Requests, stage[r] \notin {"idle", "answered"},
         NEW to \in {"statted", "ensured", "opened", "reading"}, Goto(r, to),
         op[r] = IF to = "reading" THEN "read_file" ELSE "write_file", Named(r) \in Nodes,
         UNCHANGED << op, path, response, before >>
  PROVE  TypeOK' /\ Life'
<1>1. TypeOK'
  BY DEF TypeOK, FsTyped, Goto, Stages
<1>2. \A q \in Requests :
        /\ Acknowledged(q)' <=> Acknowledged(q)
        /\ Told(q)' = Told(q) /\ Named(q)' = Named(q)
        /\ stage'[q] = IF q = r THEN to ELSE stage[q]
        /\ reply'[q] = reply[q]
  BY DEF TypeOK, Goto, Acknowledged, Told, Named
<1> QED BY <1>1, <1>2 DEF Life, TypeOK

\* A file gets a content of the right type.
LEMMA PutTyped ==
  ASSUME TypeOK, NEW i, NEW c \in Contents, Put(i, c)
  PROVE  data' \in [Files -> Contents] /\ seen' \in [Requests -> SUBSET Contents]
<1>1. data' \in [Files -> Contents]
  BY DEF Put, TypeOK
<1>2. \A q \in Requests : seen[q] \cup {c} \in SUBSET Contents /\ seen[q] \in SUBSET Contents
  BY DEF TypeOK
<1> QED BY <1>1, <1>2 DEF Put

\* The file that a write opens.
Opened(r) == IF node[Named(r)] = "absent" THEN r ELSE node[Named(r)]

\* The device's steps that touch the file system keep its types.
LEMMA FsTypedStep ==
  ASSUME TypeOK, Life, NEW r \in Requests, DeviceStep(r)
  PROVE  FsTyped'
<1> USE DEF FsTyped
<1>0. FsTyped
  BY DEF TypeOK
<1>1. CASE ReadDir(r) \/ WriteFile(r)
  BY <1>0, <1>1 DEF ReadDir, WriteFile, fs
<1>2. CASE OpenRead(r)
  <2>1. CASE ~IsFile(Named(r))
    BY <1>0, <1>2, <2>1 DEF OpenRead
  <2>2. CASE IsFile(Named(r))
    <3>1. PICK i : i = node[Named(r)]
      OBVIOUS
    <3>2. i \in Files
      BY <2>2, <3>1 DEF IsFile
    <3>3. /\ handle' = [handle EXCEPT ![r] = i]
          /\ seen' = [seen EXCEPT ![r] =
                       {data[i]} \cup (IF Writers(i) = {} THEN {} ELSE {"partial"})]
          /\ UNCHANGED << node, data >>
      BY <1>2, <2>2, <3>1 DEF OpenRead
    <3>4. {data[i]} \cup (IF Writers(i) = {} THEN {} ELSE {"partial"}) \in SUBSET Contents
      BY <1>0, <3>2 DEF Contents
    <3> QED BY <1>0, <3>2, <3>3, <3>4
  <2> QED BY <2>1, <2>2
<1>3. CASE ReadDone(r)
  BY <1>0, <1>3 DEF ReadDone
<1>4. CASE Rm(r)
  BY <1>0, <1>4 DEF Rm
<1>5. CASE MakeDir(r)
  BY <1>0, <1>5 DEF MakeDir
<1>6. CASE OpenFile(r)
  <2>1. CASE IsFolder(Named(r))
    BY <1>0, <1>6, <2>1 DEF OpenFile, fs
  <2>2. CASE ~IsFolder(Named(r))
    <3>1. Named(r) \in Nodes
      BY <1>6 DEF OpenFile, Life
    <3>2. Opened(r) \in Files
      BY <1>0, <2>2, <3>1 DEF Opened, IsFolder, Files
    <3>3. /\ node' = [node EXCEPT ![Named(r)] = Opened(r)]
          /\ handle' = [handle EXCEPT ![r] = Opened(r)]
          /\ Put(Opened(r), "partial")
      BY <1>6, <2>2 DEF OpenFile, Opened
    <3>4. "partial" \in Contents
      BY DEF Contents
    <3>5. data' \in [Files -> Contents] /\ seen' \in [Requests -> SUBSET Contents]
      BY <3>3, <3>4, PutTyped
    <3> QED BY <1>0, <3>2, <3>3, <3>5
  <2> QED BY <2>1, <2>2
<1>7. CASE Store(r)
  <2>1. PICK c \in {r, "mixed"} : Put(handle[r], c)
    BY <1>7 DEF Store
  <2>2. c \in Contents
    BY DEF Contents, Whole
  <2>3. data' \in [Files -> Contents] /\ seen' \in [Requests -> SUBSET Contents]
    BY <2>1, <2>2, PutTyped
  <2>4. node' = node /\ handle' = [handle EXCEPT ![r] = Nothing]
    BY <1>7 DEF Store
  <2> QED BY <1>0, <2>3, <2>4
<1> QED BY <1>1, <1>2, <1>3, <1>4, <1>5, <1>6, <1>7 DEF DeviceStep

\* Every step keeps the types and a request's life.
LEMMA LifeStep == TypeOK /\ Life /\ [Next]_vars => TypeOK' /\ Life'
<1> SUFFICES ASSUME TypeOK, Life, [Next]_vars PROVE TypeOK' /\ Life'
  OBVIOUS
<1>1. ASSUME NEW r \in Requests, NEW what \in Ops, NEW p \in VirtualPaths, Ask(r, what, p)
      PROVE  TypeOK' /\ Life'
  <2>1. TypeOK'
    BY <1>1 DEF Ask, TypeOK, Stages, Responses, Refusals, fs
  <2>2. /\ stage[r] = "idle" /\ response[r] = "none" /\ reply[r] = Nothing
        /\ op' = [op EXCEPT ![r] = what] /\ path' = [path EXCEPT ![r] = p]
        /\ before' = [before EXCEPT ![r] = {q \in Requests : Acknowledged(q)}]
        /\ reply' = reply
        /\ \/ stage' = stage /\ response' = [response EXCEPT ![r] = "400"]
           \/ stage' = stage /\ response' = [response EXCEPT ![r] = "unreachable"]
           \/ stage' = [stage EXCEPT ![r] = "sent"] /\ response' = response
    BY <1>1 DEF Ask, Life
  <2>3. ~Acknowledged(r)'
    BY <2>2 DEF Acknowledged, Refusals, TypeOK
  <2>4. \A q \in Requests \ {r} :
          /\ op'[q] = op[q] /\ path'[q] = path[q] /\ before'[q] = before[q]
          /\ stage'[q] = stage[q] /\ response'[q] = response[q]
          /\ Acknowledged(q)' <=> Acknowledged(q)
          /\ Told(q)' = Told(q) /\ Named(q)' = Named(q)
    BY <2>2 DEF Acknowledged, Told, Named, TypeOK
  <2>5. \A q \in Requests : stage[q] = "answered" => stage'[q] = "answered"
    BY <2>2 DEF TypeOK
  <2>6. ASSUME NEW q \in Requests \ {r}
        PROVE  /\ stage'[q] = "idle" /\ response'[q] = "none" => op'[q] = Nothing
               /\ stage'[q] # "idle" => op'[q] \in Ops /\ path'[q] \in VirtualPaths
               /\ reply'[q] # Nothing <=> stage'[q] = "answered"
               /\ reply'[q] = "null" => op'[q] = "read_file"
               /\ reply'[q] \in {"ok", "failed"} => op'[q] \in {"rm", "write_file"}
               /\ op'[q] = "write_file" => reply'[q] \in {Nothing, "ok", "failed"}
               /\ Acknowledged(q)' => reply'[q] # Nothing /\ response'[q] = Told(q)'
               /\ \A w \in before'[q] : stage'[w] = "answered"
               /\ stage'[q] \in {"statted", "ensured", "opened"} =>
                    op'[q] = "write_file" /\ Named(q)' \in Nodes
               /\ stage'[q] = "reading" => op'[q] = "read_file" /\ Named(q)' \in Nodes
    BY <2>2, <2>4, <2>5 DEF Life, TypeOK
  <2>7. /\ stage'[r] \in {"idle", "sent"} /\ (stage'[r] = "idle" => response'[r] # "none")
        /\ op'[r] = what /\ path'[r] = p /\ reply'[r] = Nothing
        /\ \A w \in before'[r] : stage'[w] = "answered"
    BY <2>2, <2>5 DEF Life, TypeOK
  <2>8. Nothing # "null" /\ Nothing # "ok" /\ Nothing # "failed"
    BY RequestsAreNoWords
  <2> QED BY <2>1, <2>3, <2>6, <2>7, <2>8 DEF Life
<1>2. ASSUME NEW r \in Requests, NEW t,
             response[r] = "none", response' = [response EXCEPT ![r] = t],
             UNCHANGED << fs, op, path, stage, reply, before >>,
             stage[r] # "idle",
             t = "timeout" \/ (reply[r] # Nothing /\ t = Told(r))
      PROVE  TypeOK' /\ Life'
  <2>1. t \in Responses
    BY <1>2, ToldOfReply DEF Responses
  <2>2. TypeOK'
    BY <1>2, <2>1 DEF TypeOK, fs
  <2>3. \A q \in Requests :
          /\ Told(q)' = Told(q) /\ Named(q)' = Named(q)
          /\ q # r => (Acknowledged(q)' <=> Acknowledged(q)) /\ response'[q] = response[q]
    BY <1>2 DEF Told, Named, Acknowledged, TypeOK
  <2>4. Acknowledged(r)' => reply'[r] # Nothing /\ response'[r] = Told(r)'
    BY <1>2, <2>3 DEF Acknowledged, TypeOK
  <2> QED BY <1>2, <2>2, <2>3, <2>4 DEF Life
<1>3. ASSUME NEW r \in Requests, AckArrives(r) PROVE TypeOK' /\ Life'
  BY <1>2, <1>3 DEF AckArrives, Life
<1>4. ASSUME NEW r \in Requests, AckTimeout(r) PROVE TypeOK' /\ Life'
  BY <1>2, <1>4 DEF AckTimeout
<1>5. ASSUME NEW r \in Requests, DeviceStep(r) PROVE TypeOK' /\ Life'
  <2>0. FsTyped'
    BY <1>5, FsTypedStep
  <2>1. ASSUME NEW a \in {"ok", "failed", "null", "entries", "no entries", "torn"} \cup Whole,
               AnswerFits(r, a), Answer(r, a), stage[r] \notin {"idle", "answered"},
               UNCHANGED << op, path, response, before >>
        PROVE  TypeOK' /\ Life'
    BY <2>0, <2>1, AnswerStep, AnswersAreReplies
  <2>2. CASE ReadDir(r)
    BY <2>1, <2>2 DEF ReadDir, Handled, AnswerFits
  <2>3. CASE OpenRead(r)
    <3>1. CASE IsFile(Named(r))
      BY <2>0, <2>3, <3>1, GotoStep DEF OpenRead, Handled, IsFile
    <3>2. CASE ~IsFile(Named(r))
      BY <2>1, <2>3, <3>2 DEF OpenRead, Handled, AnswerFits
    <3> QED BY <3>1, <3>2
  <2>4. CASE ReadDone(r)
    <3>1. PICK a \in Whole \cup {"torn"} : Answer(r, a)
      BY <2>4 DEF ReadDone
    <3>2. op[r] = "read_file" /\ stage[r] = "reading"
      BY <2>4 DEF ReadDone, Life
    <3>3. a \notin {"ok", "failed", "null"}
      BY RequestsAreNoWords DEF Whole
    <3>4. AnswerFits(r, a)
      BY <3>2, <3>3 DEF AnswerFits
    <3> QED BY <2>1, <2>4, <3>1, <3>2, <3>4 DEF ReadDone
  <2>5. CASE Rm(r)
    <3>1. PICK a \in {"ok", "failed"} : Answer(r, a)
      BY <2>5 DEF Rm
    <3>2. op[r] = "rm" /\ stage[r] = "sent"
      BY <2>5 DEF Rm, Handled
    <3>3. AnswerFits(r, a)
      BY <3>1, <3>2 DEF AnswerFits
    <3> QED BY <2>1, <2>5, <3>1, <3>2, <3>3 DEF Rm
  <2>6. CASE WriteFile(r)
    <3>0. op[r] = "write_file" /\ stage[r] = "sent" /\ UNCHANGED << op, path, response, before >>
      BY <2>6 DEF WriteFile, Handled
    <3>1. CASE Named(r) \notin Nodes \/ Blocked(Named(r))
      <4>1. Answer(r, "failed") /\ AnswerFits(r, "failed")
        BY <2>6, <3>0, <3>1 DEF WriteFile, AnswerFits
      <4> QED BY <2>1, <3>0, <4>1
    <3>2. CASE ~(Named(r) \notin Nodes \/ Blocked(Named(r)))
      <4>1. PICK to \in {"statted", "ensured"} : Goto(r, to)
        BY <2>6, <3>2 DEF WriteFile
      <4> QED BY <2>0, <3>0, <3>2, <4>1, GotoStep
    <3> QED BY <3>1, <3>2
  <2>7. CASE MakeDir(r)
    <3>0. /\ op[r] = "write_file" /\ stage[r] = "statted" /\ Named(r) \in Nodes
          /\ UNCHANGED << op, path, response, before >>
      BY <2>7 DEF MakeDir, Life
    <3>1. CASE Blocked(Named(r))
      <4>1. Answer(r, "failed") /\ AnswerFits(r, "failed")
        BY <2>7, <3>0, <3>1 DEF MakeDir, AnswerFits
      <4> QED BY <2>1, <3>0, <4>1
    <3>2. CASE ~Blocked(Named(r))
      <4>1. PICK to \in {"statted", "ensured"} : Goto(r, to)
        BY <2>7, <3>2 DEF MakeDir
      <4> QED BY <2>0, <3>0, <3>2, <4>1, GotoStep
    <3> QED BY <3>1, <3>2
  <2>8. CASE OpenFile(r)
    <3>0. /\ op[r] = "write_file" /\ stage[r] = "ensured" /\ Named(r) \in Nodes
          /\ UNCHANGED << op, path, response, before >>
      BY <2>8 DEF OpenFile, Life
    <3>1. CASE IsFolder(Named(r))
      <4>1. Answer(r, "failed") /\ AnswerFits(r, "failed")
        BY <2>8, <3>0, <3>1 DEF OpenFile, AnswerFits
      <4> QED BY <2>1, <3>0, <4>1
    <3>2. CASE ~IsFolder(Named(r))
      <4>1. Goto(r, "opened")
        BY <2>8, <3>2 DEF OpenFile
      <4> QED BY <2>0, <3>0, <4>1, GotoStep
    <3> QED BY <3>1, <3>2
  <2>9. CASE Store(r)
    <3>0. /\ op[r] = "write_file" /\ stage[r] = "opened" /\ Answer(r, "ok")
          /\ UNCHANGED << op, path, response, before >>
      BY <2>9 DEF Store, Life
    <3> QED BY <2>1, <3>0 DEF AnswerFits
  <2> QED BY <1>5, <2>2, <2>3, <2>4, <2>5, <2>6, <2>7, <2>8, <2>9 DEF DeviceStep
<1>6. CASE UNCHANGED vars
  <2>1. UNCHANGED << node, data, handle, seen, op, path, stage, reply, response, before >>
    BY <1>6 DEF vars
  <2>2. TypeOK'
    BY <2>1 DEF TypeOK
  <2>3. Life'
    BY <2>1 DEF Life, Acknowledged, Told, Named
  <2> QED BY <2>2, <2>3
<1> QED BY <1>1, <1>3, <1>4, <1>5, <1>6 DEF Next

\* The types and lives hold.
LEMMA LifeInit == Init => TypeOK /\ Life
<1> SUFFICES ASSUME Init PROVE TypeOK /\ Life
  OBVIOUS
<1>1. TypeOK
  BY DEF Init, TypeOK, Files, Contents, Whole, Stages, Responses
<1>2. Life
  BY FileRequestsAssumption DEF Init, Life, Acknowledged, Words
<1> QED BY <1>1, <1>2

\* The type invariant of the requests.
THEOREM FileRequestsTypeOK == Spec => []TypeOK
<1>1. TypeOK /\ Life /\ [Next]_vars => (TypeOK /\ Life)'
  BY LifeStep
<1>2. Init => TypeOK /\ Life
  BY LifeInit
<1> QED BY <1>1, <1>2, PTL DEF Spec

-------------------------------------------------------------------------------
(* What a step does.                                                       *)

\* What was asked stays; a request that was not asked is not handled.
LEMMA AskedStays ==
  ASSUME TypeOK, Life, [Next]_vars, NEW r \in Requests
  PROVE  /\ op[r] # Nothing =>
              /\ op'[r] = op[r] /\ path'[r] = path[r] /\ before'[r] = before[r]
              /\ Named(r)' = Named(r)
         /\ op[r] = Nothing =>
              stage[r] = "idle" /\ stage'[r] \in {"idle", "sent"} /\ reply'[r] = Nothing
<1>0. ASSUME UNCHANGED << op, path, before >>
      PROVE  /\ op'[r] = op[r] /\ path'[r] = path[r] /\ before'[r] = before[r]
             /\ Named(r)' = Named(r)
  BY <1>0 DEF Named
<1>1. op[r] = Nothing => stage[r] = "idle"
  <2>1. Nothing \notin Ops
    BY RequestsAreNoWords
  <2> QED BY <2>1 DEF Life
<1>2. ASSUME NEW q \in Requests, NEW what \in Ops, NEW p \in VirtualPaths, Ask(q, what, p),
             op[r] # Nothing
      PROVE  /\ op'[r] = op[r] /\ path'[r] = path[r] /\ before'[r] = before[r]
             /\ Named(r)' = Named(r)
  <2>1. r # q
    BY <1>2 DEF Ask, Life
  <2> QED BY <1>2, <2>1 DEF Ask, TypeOK, Named
<1>3. ASSUME NEW q \in Requests, NEW what \in Ops, NEW p \in VirtualPaths, Ask(q, what, p),
             stage[r] = "idle"
      PROVE  stage'[r] \in {"idle", "sent"}
  BY <1>3 DEF Ask, TypeOK
<1>4. ASSUME NEW q \in Requests, AckArrives(q) \/ AckTimeout(q)
      PROVE  UNCHANGED << op, path, before, stage >>
  BY <1>4 DEF AckArrives, AckTimeout
<1>5. ASSUME NEW q \in Requests, DeviceStep(q)
      PROVE  UNCHANGED << op, path, before >> /\ (stage[r] = "idle" => stage'[r] = "idle")
  <2>1. UNCHANGED << op, path, before >>
    BY <1>5 DEF DeviceStep, ReadDir, OpenRead, ReadDone, Rm, WriteFile, MakeDir, OpenFile, Store
  <2>2. stage[q] # "idle"
    BY <1>5 DEF DeviceStep, ReadDir, OpenRead, ReadDone, Rm, WriteFile, MakeDir, OpenFile, Store,
                Handled
  <2>3. Goto(q, "statted") \/ Goto(q, "ensured") \/ Goto(q, "opened") \/ Goto(q, "reading")
          \/ \E a : Answer(q, a)
    BY <1>5 DEF DeviceStep, ReadDir, OpenRead, ReadDone, Rm, WriteFile, MakeDir, OpenFile, Store
  <2> QED BY <2>1, <2>2, <2>3 DEF TypeOK, Answer, Goto
<1>6. ASSUME stage'[r] \in {"idle", "sent"} PROVE reply'[r] = Nothing
  BY <1>6, LifeStep DEF Life
<1>7. CASE UNCHANGED vars
  BY <1>0, <1>1, <1>6, <1>7 DEF vars
<1> QED BY <1>0, <1>1, <1>2, <1>3, <1>4, <1>5, <1>6, <1>7 DEF Next

\* Nothing of request q changes that the file system, or a reader, cares for:
\* if it is answered, then as one that finds no file or a conflict.
Refused(q) ==
  /\ stage[q] \notin {"idle", "answered", "opened", "reading"}
  /\ reply'[q] \in {"ok", "failed", "null", "entries", "no entries"}
  /\ op[q] \in {"rm", "read_file"} => ~IsFile(Named(q))
  /\ op[q] = "write_file" =>
       /\ reply'[q] = "failed"
       /\ Named(q) \in Nodes => Blocked(Named(q)) \/ IsFolder(Named(q))

Quiet ==
  /\ UNCHANGED << node, data, handle, seen >>
  /\ \A q \in Requests :
       /\ \/ stage'[q] = stage[q]
          \/ stage[q] \notin {"opened", "reading"} /\ stage'[q] \notin {"opened", "reading"}
       /\ reply'[q] = reply[q] \/ Refused(q)

Loud(r) ==
  \/ OpenRead(r) /\ IsFile(Named(r))
  \/ ReadDone(r)
  \/ Rm(r) /\ IsFile(Named(r))
  \/ MakeDir(r) /\ ~Blocked(Named(r))
  \/ OpenFile(r) /\ ~IsFolder(Named(r))
  \/ Store(r)

\* A step is a quiet one, or one of those that read or change the file system.
LEMMA StepKinds ==
  ASSUME TypeOK, Life, [Next]_vars
  PROVE  Quiet \/ \E r \in Requests : Loud(r)
<1>0. stage \in [Requests -> Stages] /\ reply \in [Requests -> Replies \cup {Nothing}]
  BY DEF TypeOK
<1>1. ASSUME NEW r \in Requests, NEW what \in Ops, NEW p \in VirtualPaths, Ask(r, what, p)
      PROVE  Quiet
  <2>1. /\ UNCHANGED << node, data, handle, seen >> /\ reply' = reply
        /\ stage[r] = "idle" /\ (stage' = stage \/ stage' = [stage EXCEPT ![r] = "sent"])
    BY <1>1 DEF Ask, fs
  <2> QED BY <1>0, <2>1 DEF Quiet
<1>2. ASSUME NEW r \in Requests, AckArrives(r) \/ AckTimeout(r) PROVE Quiet
  BY <1>2 DEF AckArrives, AckTimeout, Quiet, fs
\* A step of one request on the device.
<1>3. ASSUME NEW r \in Requests, UNCHANGED << node, data, handle, seen >>,
             stage[r] \notin {"idle", "answered", "opened", "reading"},
             \/ \E to \in {"statted", "ensured"} : Goto(r, to)
             \/ \E a \in Replies : Answer(r, a) /\ (reply'[r] = a => Refused(r))
      PROVE  Quiet
  <2>1. CASE \E to \in {"statted", "ensured"} : Goto(r, to)
    BY <1>0, <1>3, <2>1 DEF Goto, Quiet
  <2>2. ASSUME NEW a \in Replies, Answer(r, a), reply'[r] = a => Refused(r) PROVE Quiet
    BY <1>0, <1>3, <2>2 DEF Answer, Quiet
  <2> QED BY <1>3, <2>1, <2>2
<1>4. ASSUME NEW r \in Requests, ReadDir(r) PROVE Quiet
  <2>1. PICK a \in {"entries", "no entries"} : Answer(r, a)
    BY <1>4 DEF ReadDir
  <2>2. stage[r] = "sent" /\ op[r] = "read_dir" /\ UNCHANGED << node, data, handle, seen >>
    BY <1>4 DEF ReadDir, Handled, fs
  <2>3. reply'[r] = a => Refused(r)
    BY <2>2 DEF Refused
  <2> QED BY <1>3, <2>1, <2>2, <2>3, AnswersAreReplies
<1>5. ASSUME NEW r \in Requests, OpenRead(r), ~IsFile(Named(r)) PROVE Quiet
  <2>1. /\ stage[r] = "sent" /\ op[r] = "read_file" /\ Answer(r, "null")
        /\ UNCHANGED << node, data, handle, seen >>
    BY <1>5 DEF OpenRead, Handled
  <2>2. reply'[r] = "null" => Refused(r)
    BY <1>5, <2>1 DEF Refused
  <2> QED BY <1>3, <2>1, <2>2, AnswersAreReplies
<1>6. ASSUME NEW r \in Requests, Rm(r), ~IsFile(Named(r)) PROVE Quiet
  <2>1. PICK a \in {"ok", "failed"} : Answer(r, a)
    BY <1>6 DEF Rm
  <2>2. stage[r] = "sent" /\ op[r] = "rm" /\ UNCHANGED << node, data, handle, seen >>
    BY <1>6 DEF Rm, Handled
  <2>3. reply'[r] = a => Refused(r)
    BY <1>6, <2>2 DEF Refused
  <2> QED BY <1>3, <2>1, <2>2, <2>3, AnswersAreReplies
\* A step of write_file that may fail.
<1>7. ASSUME NEW r \in Requests, UNCHANGED << node, data, handle, seen >>,
             stage[r] \in {"sent", "statted", "ensured"}, op[r] = "write_file",
             Answer(r, "failed"),
             Named(r) \notin Nodes \/ Blocked(Named(r)) \/ IsFolder(Named(r))
      PROVE  Quiet
  <2>1. reply'[r] = "failed" => Refused(r)
    BY <1>7 DEF Refused
  <2> QED BY <1>3, <1>7, <2>1, AnswersAreReplies
<1>8. ASSUME NEW r \in Requests, WriteFile(r) PROVE Quiet
  <2>0. stage[r] = "sent" /\ op[r] = "write_file" /\ UNCHANGED << node, data, handle, seen >>
    BY <1>8 DEF WriteFile, Handled, fs
  <2>1. CASE Named(r) \notin Nodes \/ Blocked(Named(r))
    BY <1>7, <1>8, <2>0, <2>1 DEF WriteFile
  <2>2. CASE ~(Named(r) \notin Nodes \/ Blocked(Named(r)))
    <3>1. \E to \in {"statted", "ensured"} : Goto(r, to)
      BY <1>8, <2>2 DEF WriteFile
    <3> QED BY <1>3, <2>0, <3>1
  <2> QED BY <2>1, <2>2
<1>9. ASSUME NEW r \in Requests, MakeDir(r), Blocked(Named(r)) PROVE Quiet
  <2>1. /\ stage[r] = "statted" /\ op[r] = "write_file" /\ Answer(r, "failed")
        /\ UNCHANGED << node, data, handle, seen >>
    BY <1>9 DEF MakeDir, Life
  <2> QED BY <1>7, <1>9, <2>1
<1>10. ASSUME NEW r \in Requests, OpenFile(r), IsFolder(Named(r)) PROVE Quiet
  <2>1. /\ stage[r] = "ensured" /\ op[r] = "write_file" /\ Answer(r, "failed")
        /\ UNCHANGED << node, data, handle, seen >>
    BY <1>10 DEF OpenFile, Life, fs
  <2> QED BY <1>7, <1>10, <2>1
<1>11. CASE UNCHANGED vars
  BY <1>11 DEF vars, Quiet
<1> QED BY <1>1, <1>2, <1>4, <1>5, <1>6, <1>8, <1>9, <1>10, <1>11
        DEF Next, DeviceStep, Loud

\* The other requests' part in a step of request r.
Only(r) ==
  \A q \in Requests \ {r} :
    stage'[q] = stage[q] /\ reply'[q] = reply[q] /\ handle'[q] = handle[q]

PutIn(i, c) ==
  /\ \A j \in Files : data'[j] = IF j = i THEN c ELSE data[j]
  /\ \A q \in Requests :
       seen'[q] = IF stage[q] = "reading" /\ handle[q] = i THEN seen[q] \cup {c} ELSE seen[q]

LEMMA PutDoes ==
  ASSUME TypeOK, NEW i, NEW c, Put(i, c)
  PROVE  PutIn(i, c)
  BY DEF Put, PutIn, TypeOK

LEMMA OpenReadDoes ==
  ASSUME TypeOK, Life, NEW r \in Requests, OpenRead(r), IsFile(Named(r))
  PROVE  /\ node' = node /\ data' = data /\ Only(r)
         /\ \A q \in Requests \ {r} : seen'[q] = seen[q]
         /\ stage[r] = "sent" /\ stage'[r] = "reading" /\ reply'[r] = reply[r]
         /\ op[r] = "read_file" /\ Named(r) \in Nodes
         /\ node[Named(r)] \in Files /\ handle'[r] = node[Named(r)]
         /\ seen'[r] = {data[handle'[r]]}
                         \cup (IF Writers(handle'[r]) = {} THEN {} ELSE {"partial"})
<1>1. PICK i : i = node[Named(r)]
  OBVIOUS
<1>2. /\ handle' = [handle EXCEPT ![r] = i]
      /\ seen' = [seen EXCEPT ![r] =
                   {data[i]} \cup (IF Writers(i) = {} THEN {} ELSE {"partial"})]
      /\ stage' = [stage EXCEPT ![r] = "reading"] /\ UNCHANGED << node, data, reply >>
      /\ stage[r] = "sent" /\ op[r] = "read_file"
  BY <1>1 DEF OpenRead, Goto, Handled
<1> QED BY <1>1, <1>2 DEF Only, IsFile, TypeOK

LEMMA ReadDoneDoes ==
  ASSUME TypeOK, Life, NEW r \in Requests, ReadDone(r)
  PROVE  /\ node' = node /\ data' = data /\ Only(r) /\ seen'[r] = {}
         /\ \A q \in Requests \ {r} : seen'[q] = seen[q]
         /\ stage[r] = "reading" /\ stage'[r] = "answered" /\ op[r] = "read_file"
         /\ Named(r) \in Nodes
         /\ \/ reply'[r] \in seen[r] \cap Whole
            \/ reply'[r] = "torn" /\ \A w \in Whole : seen[r] # {w}
<1>1. PICK c \in (seen[r] \cap Whole) \cup
               (IF \E w \in Whole : seen[r] = {w} THEN {} ELSE {"torn"}) : Answer(r, c)
  BY DEF ReadDone
<1>2. c \in seen[r] \cap Whole \/ (c = "torn" /\ \A w \in Whole : seen[r] # {w})
  BY <1>1
<1> QED BY <1>1, <1>2 DEF ReadDone, Answer, Only, Life, TypeOK

LEMMA RmDoes ==
  ASSUME TypeOK, Life, NEW r \in Requests, Rm(r), IsFile(Named(r))
  PROVE  /\ data' = data /\ handle' = handle /\ seen' = seen /\ Only(r)
         /\ Named(r) \in Nodes /\ node[Named(r)] \in Files
         /\ \A n \in Nodes : node'[n] = IF n = Named(r) THEN "absent" ELSE node[n]
         /\ stage[r] = "sent" /\ stage'[r] = "answered" /\ op[r] = "rm" /\ reply'[r] = "ok"
  BY DEF Rm, Answer, Handled, IsFile, Only, TypeOK

LEMMA MakeDirDoes ==
  ASSUME TypeOK, Life, NEW r \in Requests, MakeDir(r), ~Blocked(Named(r))
  PROVE  /\ data' = data /\ handle' = handle /\ seen' = seen /\ Only(r)
         /\ op[r] = "write_file" /\ Named(r) \in Nodes /\ reply'[r] = reply[r]
         /\ stage[r] = "statted" /\ stage'[r] \in {"statted", "ensured"}
         /\ \A n \in Nodes :
              \/ node'[n] = node[n]
              \/ node[n] = "absent" /\ node'[n] = "folder" /\ n \in Above(Named(r))
<1>1. /\ node' = [m \in Nodes |-> IF m \in Missing(Named(r)) THEN "folder" ELSE node[m]]
      /\ Goto(r, "ensured") \/ Goto(r, "statted")
      /\ UNCHANGED << data, handle, seen >> /\ stage[r] = "statted"
  BY DEF MakeDir
<1>2. op[r] = "write_file" /\ Named(r) \in Nodes
  BY <1>1 DEF Life
<1> QED BY <1>1, <1>2 DEF Goto, Only, Missing, TypeOK

LEMMA OpenFileDoes ==
  ASSUME TypeOK, Life, NEW r \in Requests, OpenFile(r), ~IsFolder(Named(r))
  PROVE  /\ op[r] = "write_file" /\ Named(r) \in Nodes /\ reply'[r] = reply[r]
         /\ stage[r] = "ensured" /\ stage'[r] = "opened" /\ Only(r)
         /\ Opened(r) \in Files
         /\ Opened(r) = IF node[Named(r)] = "absent" THEN r ELSE node[Named(r)]
         /\ handle'[r] = Opened(r) /\ PutIn(Opened(r), "partial")
         /\ \A n \in Nodes : node'[n] = IF n = Named(r) THEN Opened(r) ELSE node[n]
<1>1. /\ node' = [node EXCEPT ![Named(r)] = Opened(r)]
      /\ handle' = [handle EXCEPT ![r] = Opened(r)]
      /\ Put(Opened(r), "partial") /\ Goto(r, "opened") /\ stage[r] = "ensured"
  BY DEF OpenFile, Opened
<1>2. op[r] = "write_file" /\ Named(r) \in Nodes
  BY <1>1 DEF Life
<1>3. Opened(r) \in Files
  BY <1>2 DEF Opened, IsFolder, Files, TypeOK
<1>4. PutIn(Opened(r), "partial")
  BY <1>1, PutDoes
<1>5. Opened(r) = IF node[Named(r)] = "absent" THEN r ELSE node[Named(r)]
  BY DEF Opened
<1> HIDE DEF Opened
<1> QED BY <1>1, <1>2, <1>3, <1>4, <1>5 DEF Goto, Only, TypeOK

LEMMA StoreDoes ==
  ASSUME TypeOK, Life, NEW r \in Requests, Store(r)
  PROVE  /\ op[r] = "write_file" /\ Named(r) \in Nodes /\ reply'[r] = "ok"
         /\ stage[r] = "opened" /\ stage'[r] = "answered" /\ Only(r) /\ node' = node
         /\ \E c \in {r, "mixed"} :
              /\ PutIn(handle[r], c)
              /\ c = "mixed" =>
                   data[handle[r]] # "partial" \/ \E q \in Writers(handle[r]) : q # r
<1>1. PICK c \in {r} \cup (IF data[handle[r]] = "partial" /\ Writers(handle[r]) = {r}
                           THEN {} ELSE {"mixed"}) : Put(handle[r], c)
  BY DEF Store
<1>2. /\ stage[r] = "opened" /\ Answer(r, "ok") /\ node' = node
      /\ handle' = [handle EXCEPT ![r] = Nothing]
  BY DEF Store
<1>3. op[r] = "write_file" /\ Named(r) \in Nodes
  BY <1>2 DEF Life
<1>4. r \in Writers(handle[r]) /\ r # "mixed"
  BY <1>2, RequestsAreNoWords DEF Writers
<1>5. /\ c \in {r, "mixed"}
      /\ c = "mixed" => data[handle[r]] # "partial" \/ \E q \in Writers(handle[r]) : q # r
  BY <1>1, <1>4
<1>6. PutIn(handle[r], c)
  BY <1>1, PutDoes
<1> QED BY <1>2, <1>3, <1>5, <1>6 DEF Answer, Only, TypeOK

-------------------------------------------------------------------------------
(* Names, files outside, and writes in conflict.                           *)

Wants(w) == op[w] = "write_file" /\ Named(w) \in Nodes

\* The names outside stay; a file of another name has been created under it by
\* a write, a folder been made for a write below it; whoever has a file open
\* opened it by its name.
NodesInv ==
  /\ \A n \in Nodes : node[n] = "private" <=> n \in Outside
  /\ \A n \in Nodes : \A i \in Requests : node[n] = i => Wants(i) /\ Named(i) = n
  /\ \A n \in Nodes :
       node[n] = "folder" => \E w \in Requests : Wants(w) /\ n \in Above(Named(w))
  /\ \A q \in Requests :
       stage[q] \in {"opened", "reading"} =>
         \E i \in Requests : handle[q] = i /\ Wants(i) /\ Named(i) = Named(q)

\* No file outside changes, and none is read.
PrivateInv ==
  /\ data["private"] = "private"
  /\ \A i \in Requests : data[i] # "private"
  /\ \A r \in Requests : "private" \notin seen[r] /\ reply[r] # "private"

\* A write that is not older wants a folder in the place of this one's file, or
\* a file in the place of one of its folders.
InConflict(w) ==
  \E v \in Requests :
    Wants(v) /\ w \notin before[v] /\ (Named(v) \in Above(Named(w)) \/ Named(w) \in Above(Named(v)))

ConflictInv == \A w \in Requests : Wants(w) /\ reply[w] = "failed" => InConflict(w)

\* What was asked for stays asked for.
LEMMA WantsStays ==
  ASSUME TypeOK, Life, [Next]_vars, NEW w \in Requests, op[w] # Nothing
  PROVE  /\ Wants(w)' <=> Wants(w)
         /\ Named(w)' = Named(w) /\ op'[w] = op[w] /\ before'[w] = before[w]
  BY AskedStays DEF Wants

\* Who wants something was asked.
LEMMA WantsAsked ==
  ASSUME NEW w \in Requests, Wants(w)
  PROVE  op[w] # Nothing
  BY RequestsAreNoWords DEF Wants, Ops

\* A path that is asked for is inside, and so is what is above it.
LEMMA NamedInside ==
  ASSUME Life, NEW r \in Requests, stage[r] # "idle", Named(r) \in Nodes
  PROVE  Named(r) \notin Outside /\ Above(Named(r)) \cap Outside = {}
<1>1. Named(r) \notin Outside
  BY TargetsAreAllowed DEF Life, Named
<1> QED BY <1>1, FileRequestsAssumption

\* The names are kept.
LEMMA NodesStep ==
  ASSUME TypeOK, Life, NodesInv, [Next]_vars
  PROVE  NodesInv'
<1>0. node \in [Nodes -> {"absent", "folder"} \cup Files]
  BY DEF TypeOK
<1>1. ASSUME NEW w \in Requests, Wants(w)
      PROVE  Wants(w)' /\ Named(w)' = Named(w)
  BY <1>1, WantsAsked, WantsStays
<1>2. ASSUME NEW q \in Requests,
             stage[q] \in {"opened", "reading"} \/ stage'[q] \in {"opened", "reading"}
      PROVE  Named(q)' = Named(q)
  <2>1. op[q] # Nothing
    BY <1>2, AskedStays
  <2> QED BY <2>1, AskedStays
\* A name that stays, a request that keeps its file open.
<1>3. ASSUME NEW n \in Nodes, node'[n] = node[n]
      PROVE  /\ node'[n] = "private" <=> n \in Outside
             /\ \A i \in Requests : node'[n] = i => Wants(i)' /\ Named(i)' = n
             /\ node'[n] = "folder" => \E w \in Requests : Wants(w)' /\ n \in Above(Named(w)')
  BY <1>1, <1>3 DEF NodesInv
<1>4. ASSUME NEW q \in Requests, stage[q] \in {"opened", "reading"}, handle'[q] = handle[q]
      PROVE  \E i \in Requests : handle'[q] = i /\ Wants(i)' /\ Named(i)' = Named(q)'
  <2>1. PICK i \in Requests : i = handle[q] /\ Wants(i) /\ Named(i) = Named(q)
    BY <1>4 DEF NodesInv
  <2> QED BY <1>1, <1>2, <1>4, <2>1
<1>5. CASE Quiet
  <2>1. /\ \A n \in Nodes : node'[n] = node[n]
        /\ \A q \in Requests :
             stage'[q] \in {"opened", "reading"} =>
               stage[q] \in {"opened", "reading"} /\ handle'[q] = handle[q]
    BY <1>5 DEF Quiet
  <2> QED BY <1>3, <1>4, <2>1 DEF NodesInv
\* A step of request r that sets one name, and opens a file for r or not.
<1>6. ASSUME NEW r \in Requests, Only(r),
             stage'[r] \in {"opened", "reading"} =>
               \E i \in Requests : handle'[r] = i /\ Wants(i) /\ Named(i) = Named(r),
             \A n \in Nodes :
               \/ node'[n] = node[n]
               \/ n \notin Outside /\ node'[n] = "absent"
               \/ n \notin Outside /\ node'[n] = r /\ Wants(r) /\ Named(r) = n
               \/ n \notin Outside /\ node'[n] = "folder" /\ Wants(r) /\ n \in Above(Named(r))
      PROVE  NodesInv'
  <2>1. ASSUME NEW n \in Nodes
        PROVE  /\ node'[n] = "private" <=> n \in Outside
               /\ \A i \in Requests : node'[n] = i => Wants(i)' /\ Named(i)' = n
               /\ node'[n] = "folder" => \E w \in Requests : Wants(w)' /\ n \in Above(Named(w)')
    <3>1. CASE node'[n] = node[n]
      BY <1>3, <3>1
    <3>2. CASE n \notin Outside /\ node'[n] = "absent"
      BY <3>2, RequestsAreNoWords
    <3>3. CASE n \notin Outside /\ node'[n] = r /\ Wants(r) /\ Named(r) = n
      BY <1>1, <3>3, RequestsAreNoWords
    <3>4. CASE n \notin Outside /\ node'[n] = "folder" /\ Wants(r) /\ n \in Above(Named(r))
      BY <1>1, <3>4, RequestsAreNoWords
    <3> QED BY <1>6, <3>1, <3>2, <3>3, <3>4
  <2>2. ASSUME NEW q \in Requests, stage'[q] \in {"opened", "reading"}
        PROVE  \E i \in Requests : handle'[q] = i /\ Wants(i)' /\ Named(i)' = Named(q)'
    <3>1. CASE q = r
      <4>1. PICK i \in Requests : handle'[r] = i /\ Wants(i) /\ Named(i) = Named(r)
        BY <1>6, <2>2, <3>1
      <4> QED BY <1>1, <1>2, <2>2, <3>1, <4>1
    <3>2. CASE q # r
      BY <1>4, <1>6, <2>2, <3>2 DEF Only
    <3> QED BY <3>1, <3>2
  <2> QED BY <2>1, <2>2 DEF NodesInv
\* The file of a name that is inside was created by a request.
<1>7. ASSUME NEW n \in Nodes \ Outside, node[n] \in Files
      PROVE  node[n] \in Requests /\ Wants(node[n]) /\ Named(node[n]) = n
  BY <1>7 DEF NodesInv, Files
<1>8. ASSUME NEW r \in Requests, Loud(r) PROVE NodesInv'
  <2>1. CASE OpenRead(r) /\ IsFile(Named(r))
    <3>1. Named(r) \in Nodes \ Outside /\ node[Named(r)] \in Files /\ handle'[r] = node[Named(r)]
      BY <2>1, OpenReadDoes, NamedInside
    <3>2. PICK i \in Requests : handle'[r] = i /\ Wants(i) /\ Named(i) = Named(r)
      BY <1>7, <3>1
    <3> QED BY <1>6, <2>1, <3>2, OpenReadDoes
  <2>2. CASE ReadDone(r)
    BY <1>6, <2>2, ReadDoneDoes
  <2>3. CASE Rm(r) /\ IsFile(Named(r))
    <3>1. Named(r) \notin Outside
      BY <2>3, RmDoes, NamedInside
    <3> QED BY <1>6, <2>3, <3>1, RmDoes
  <2>4. CASE MakeDir(r) /\ ~Blocked(Named(r))
    <3>1. Above(Named(r)) \cap Outside = {} /\ Wants(r)
      BY <2>4, MakeDirDoes, NamedInside DEF Wants
    <3> QED BY <1>6, <2>4, <3>1, MakeDirDoes
  <2>5. CASE OpenFile(r) /\ ~IsFolder(Named(r))
    <3>1. Named(r) \notin Outside /\ Wants(r)
      BY <2>5, OpenFileDoes, NamedInside DEF Wants
    <3>2. PICK i : i = Opened(r)
      OBVIOUS
    <3>3. i \in Requests /\ Wants(i) /\ Named(i) = Named(r) /\ (i = r \/ i = node[Named(r)])
      <4>1. CASE node[Named(r)] = "absent"
        BY <2>5, <3>1, <3>2, <4>1, OpenFileDoes
      <4>2. CASE node[Named(r)] # "absent"
        BY <1>7, <2>5, <3>1, <3>2, <4>2, OpenFileDoes
      <4> QED BY <4>1, <4>2
    <3>4. handle'[r] = i /\ \A n \in Nodes : node'[n] = IF n = Named(r) THEN i ELSE node[n]
      BY <2>5, <3>2, OpenFileDoes
    <3>5. \A n \in Nodes :
            node'[n] = node[n] \/ (n \notin Outside /\ node'[n] = r /\ Wants(r) /\ Named(r) = n)
      BY <3>1, <3>3, <3>4
    <3> QED BY <1>6, <2>5, <3>3, <3>4, <3>5, OpenFileDoes
  <2>6. CASE Store(r)
    BY <1>6, <2>6, StoreDoes
  <2> QED BY <1>8, <2>1, <2>2, <2>3, <2>4, <2>5, <2>6 DEF Loud
<1> QED BY <1>5, <1>8, StepKinds

\* A request that is not over is older than no other.
LEMMA OpenIsNotBefore ==
  ASSUME Life, NEW q \in Requests, NEW w \in Requests, stage[q] # "answered"
  PROVE  q \notin before[w]
  BY DEF Life

\* Files outside are left alone.
LEMMA PrivateStep ==
  ASSUME TypeOK, Life, NodesInv, PrivateInv, [Next]_vars
  PROVE  PrivateInv'
<1>0. "private" \in Files /\ Requests \subseteq Files
  BY DEF Files
<1>1. CASE Quiet
  <2>1. \A q \in Requests : reply'[q] = reply[q] \/ reply'[q] # "private"
    BY <1>1 DEF Quiet, Refused
  <2> QED BY <1>1, <2>1 DEF Quiet, PrivateInv
\* A file of a request gets a content.
<1>2. ASSUME NEW r \in Requests, NEW i \in Requests, NEW c \in {r, "mixed", "partial"},
             PutIn(i, c), Only(r), reply'[r] # "private"
      PROVE  PrivateInv'
  <2>1. i # "private" /\ c # "private"
    BY RequestsAreNoWords
  <2>2. \A j \in Files : data'[j] = IF j = i THEN c ELSE data[j]
    BY <1>2 DEF PutIn
  <2>3. \A q \in Requests : seen'[q] = seen[q] \/ seen'[q] = seen[q] \cup {c}
    BY <1>2 DEF PutIn
  <2>4. \A q \in Requests : reply'[q] # "private"
    BY <1>2 DEF Only, PrivateInv
  <2> QED BY <1>0, <2>1, <2>2, <2>3, <2>4 DEF PrivateInv
<1>3. ASSUME NEW r \in Requests, Loud(r) PROVE PrivateInv'
  <2>0. \A i \in Requests : i # "private"
    BY RequestsAreNoWords
  <2>1. CASE OpenRead(r) /\ IsFile(Named(r))
    <3>1. handle'[r] \in Requests
      <4>1. Named(r) \notin Outside
        BY <2>1, OpenReadDoes, NamedInside
      <4> QED BY <2>1, <4>1, OpenReadDoes DEF NodesInv, Files
    <3>2. PICK i \in Requests : i = handle'[r]
      BY <3>1
    <3>3. "private" \notin seen'[r]
      BY <2>1, <3>2, OpenReadDoes DEF PrivateInv
    <3> QED BY <2>1, <3>3, OpenReadDoes DEF Only, PrivateInv
  <2>2. CASE ReadDone(r)
    BY <2>2, ReadDoneDoes DEF Only, PrivateInv
  <2>3. CASE Rm(r) /\ IsFile(Named(r))
    BY <2>3, RmDoes DEF Only, PrivateInv
  <2>4. CASE MakeDir(r) /\ ~Blocked(Named(r))
    BY <2>4, MakeDirDoes DEF Only, PrivateInv
  <2>5. CASE OpenFile(r) /\ ~IsFolder(Named(r))
    <3>1. Named(r) \notin Outside
      BY <2>5, OpenFileDoes, NamedInside
    <3>2. Opened(r) \in Requests
      BY <2>5, <3>1, OpenFileDoes DEF NodesInv, Files
    <3>3. reply'[r] # "private"
      BY <2>5, OpenFileDoes DEF PrivateInv
    <3> QED BY <1>2, <2>5, <3>2, <3>3, OpenFileDoes
  <2>6. CASE Store(r)
    <3>1. handle[r] \in Requests
      BY <2>6, StoreDoes DEF NodesInv
    <3>2. PICK c \in {r, "mixed"} : PutIn(handle[r], c)
      BY <2>6, StoreDoes
    <3> QED BY <1>2, <2>6, <3>1, <3>2, StoreDoes
  <2> QED BY <1>3, <2>1, <2>2, <2>3, <2>4, <2>5, <2>6 DEF Loud
<1> QED BY <1>1, <1>3, StepKinds

\* A write fails only in conflict.
LEMMA ConflictStep ==
  ASSUME TypeOK, Life, NodesInv, ConflictInv, [Next]_vars
  PROVE  ConflictInv'
<1> SUFFICES ASSUME NEW w \in Requests, Wants(w)', reply'[w] = "failed" PROVE InConflict(w)'
  BY DEF ConflictInv
<1>1. op[w] # Nothing
  BY AskedStays, RequestsAreNoWords
<1>2. Wants(w) /\ Named(w)' = Named(w)
  BY <1>1, WantsStays
<1> SUFFICES InConflict(w)
  <2>1. PICK v \in Requests :
          /\ Wants(v) /\ w \notin before[v]
          /\ Named(v) \in Above(Named(w)) \/ Named(w) \in Above(Named(v))
    BY DEF InConflict
  <2>2. Wants(v)' /\ Named(v)' = Named(v) /\ before'[v] = before[v]
    BY <2>1, WantsAsked, WantsStays
  <2> QED BY <1>2, <2>1, <2>2 DEF InConflict
<1>3. CASE reply'[w] = reply[w]
  BY <1>2, <1>3 DEF ConflictInv
<1>4. CASE Quiet /\ reply'[w] # reply[w]
  <2>1. /\ stage[w] \notin {"idle", "answered"} /\ Named(w) \in Nodes
        /\ Blocked(Named(w)) \/ IsFolder(Named(w))
    BY <1>2, <1>4 DEF Quiet, Refused, Wants
  <2>2. CASE Blocked(Named(w))
    <3>1. PICK m \in Above(Named(w)) : m \in Nodes /\ node[m] \in Files
      BY <2>2 DEF Blocked, IsFile
    <3>2. m \notin Outside
      BY <2>1, <3>1, NamedInside
    <3>3. PICK v \in Requests : v = node[m] /\ Wants(v) /\ Named(v) = m
      BY <3>1, <3>2 DEF NodesInv, Files
    <3> QED BY <2>1, <3>1, <3>3, OpenIsNotBefore DEF InConflict
  <2>3. CASE IsFolder(Named(w))
    <3>1. PICK v \in Requests : Wants(v) /\ Named(w) \in Above(Named(v))
      BY <2>3 DEF IsFolder, NodesInv
    <3> QED BY <2>1, <3>1, OpenIsNotBefore DEF InConflict
  <2> QED BY <2>1, <2>2, <2>3
<1>5. ASSUME NEW r \in Requests, Loud(r) PROVE reply'[w] = reply[w] \/ reply'[w] # "failed"
  <2>1. CASE OpenRead(r) /\ IsFile(Named(r))
    BY <2>1, OpenReadDoes DEF Only
  <2>2. CASE ReadDone(r)
    BY <1>2, <2>2, ReadDoneDoes DEF Only, Wants
  <2>3. CASE Rm(r) /\ IsFile(Named(r))
    BY <2>3, RmDoes DEF Only
  <2>4. CASE MakeDir(r) /\ ~Blocked(Named(r))
    BY <2>4, MakeDirDoes DEF Only
  <2>5. CASE OpenFile(r) /\ ~IsFolder(Named(r))
    BY <2>5, OpenFileDoes DEF Only
  <2>6. CASE Store(r)
    BY <2>6, StoreDoes DEF Only
  <2> QED BY <1>5, <2>1, <2>2, <2>3, <2>4, <2>5, <2>6 DEF Loud
<1> QED BY <1>3, <1>4, <1>5, StepKinds

NamesInv == TypeOK /\ Life /\ NodesInv /\ PrivateInv /\ ConflictInv

\* The invariant of the names.
LEMMA NamesInvariant == Spec => []NamesInv
<1>1. Init => NamesInv
  <2> SUFFICES ASSUME Init PROVE NodesInv /\ PrivateInv /\ ConflictInv
    BY LifeInit DEF NamesInv
  <2>1. \A n \in Nodes : node[n] = IF n \in Outside THEN "private" ELSE "absent"
    BY DEF Init
  <2>2. NodesInv
    BY <2>1, RequestsAreNoWords DEF Init, NodesInv
  <2>3. PrivateInv
    BY RequestsAreNoWords DEF Init, PrivateInv, Files
  <2>4. ConflictInv
    BY RequestsAreNoWords DEF Init, ConflictInv
  <2> QED BY <2>2, <2>3, <2>4
<1>2. NamesInv /\ [Next]_vars => NamesInv'
  BY LifeStep, NodesStep, PrivateStep, ConflictStep DEF NamesInv
<1> QED BY <1>1, <1>2, PTL DEF Spec

\* No path reaches a file outside the allowed folders, however it is written:
\* for every set of paths, names and requests.
THEOREM FilesOutsideArePrivate == Spec => []OnlyAllowedDirectories
<1>1. NamesInv => OnlyAllowedDirectories
  <2> SUFFICES ASSUME NamesInv, NEW r \in Requests, response[r] = "private" PROVE FALSE
    BY DEF NamesInv, NodesInv, PrivateInv, OnlyAllowedDirectories, Outside
  <2>1. Acknowledged(r)
    BY DEF Acknowledged, Refusals
  <2>2. Told(r) = "private"
    BY <2>1 DEF NamesInv, Life
  <2> QED BY <2>2 DEF Told, NamesInv, PrivateInv
<1> QED BY <1>1, NamesInvariant, PTL

\* A write fails only because of a write that is not older and wants the names
\* to be otherwise.
THEOREM FileWritesFailInConflict == Spec => []WritesFailInConflictOnly
<1>1. NamesInv => WritesFailInConflictOnly
  <2> SUFFICES ASSUME NamesInv, NEW f \in Nodes, NEW w \in Writes(f), reply[w] = "failed"
               PROVE  \E g \in Nodes : \E v \in Writes(g) :
                        w \notin before[v] /\ (g \in Above(f) \/ f \in Above(g))
    BY DEF WritesFailInConflictOnly
  <2>1. w \in Requests /\ Wants(w) /\ Named(w) = f
    BY DEF Writes, Wants
  <2>2. PICK v \in Requests :
          /\ Wants(v) /\ w \notin before[v]
          /\ Named(v) \in Above(f) \/ f \in Above(Named(v))
    BY <2>1 DEF NamesInv, ConflictInv, InConflict
  <2>3. Named(v) \in Nodes /\ v \in Writes(Named(v))
    BY <2>2 DEF Wants, Writes
  <2> QED BY <2>2, <2>3
<1> QED BY <1>1, NamesInvariant, PTL

-------------------------------------------------------------------------------
(* What reads may return: the inductive invariant.                         *)

\* The request has had its first effect on the file, or found none.
Done(w) ==
  /\ \/ op[w] = "rm" /\ stage[w] = "answered"
     \/ op[w] = "write_file" /\ (stage[w] = "opened" \/ reply[w] = "ok")
  /\ Named(w) \in Nodes

\* A removal that could have come after w.
RemovedSince(w) == \E m \in Removals(Named(w)) : m \notin before[w]

\* Two writes of a file overlap; one overlaps the read r or another write.
Shared(f) == \E v \in Writes(f) : \E w \in Writes(f) : Overlap(v, w)
TornIsDue(r) == \E v \in Writes(Named(r)) : \E q \in Writes(Named(r)) \cup {r} : Overlap(v, q)

\* Once w is done, what was acknowledged before it is gone ...
OldIsGone ==
  \A w \in Requests : Done(w) /\ IsFile(Named(w)) => data[node[Named(w)]] \notin before[w]

\* ... and if the file is missing although w wrote it, it was removed.
MissingIsRemoved ==
  \A w \in Requests :
    Done(w) /\ op[w] = "write_file" /\ ~IsFile(Named(w)) => RemovedSince(w)

\* A half-written file that has a name is being written.
PartialIsOpen ==
  \A n \in Nodes : \A i \in Files : node[n] = i /\ data[i] = "partial" => Writers(i) # {}

\* A file that is open and no longer empty was written by another.
FullIsShared ==
  \A q \in Requests : \A i \in Files :
    stage[q] = "opened" /\ handle[q] = i /\ data[i] # "partial" => Shared(Named(q))

MixedIsShared == \A i \in Requests : data[i] = "mixed" => Wants(i) /\ Shared(Named(i))

\* A read has seen nothing older than what was acknowledged before it, and one
\* whole content unless a writer was there.
SeenInv ==
  \A r \in Requests :
    stage[r] = "reading" =>
      /\ \A w \in before[r] :
           Done(w) /\ Named(w) = Named(r) => seen[r] \cap before[w] = {}
      /\ TornIsDue(r) \/ \E c \in Whole : seen[r] = {c}

\* The same of its reply.
RepliesInv ==
  \A r \in Requests :
    op[r] = "read_file" /\ Named(r) \in Nodes =>
      /\ \A w \in before[r] :
           Done(w) /\ Named(w) = Named(r) =>
             /\ reply[r] \notin before[w]
             /\ op[w] = "write_file" /\ reply[r] = "null" => RemovedSince(w)
      /\ reply[r] = "torn" => TornIsDue(r)

FilesInv ==
  /\ OldIsGone /\ MissingIsRemoved /\ PartialIsOpen /\ FullIsShared /\ MixedIsShared
  /\ SeenInv /\ RepliesInv

-------------------------------------------------------------------------------
(* What a step does to requests that are done, to a file and to a read.    *)

\* A write under way, and what it can put into a file.
Writing(v) == Wants(v) /\ stage[v] \in {"ensured", "opened"}
Fresh(c, v) == Writing(v) /\ c \in {v, "mixed", "partial"}

\* Writes, removals and overlaps of a file stay.
LEMMA Stays ==
  ASSUME TypeOK, Life, [Next]_vars
  PROVE  /\ \A f : Writes(f) \subseteq Writes(f)' /\ Removals(f) \subseteq Removals(f)'
         /\ \A f : Shared(f) => Shared(f)'
         /\ \A w \in Requests : op[w] # Nothing /\ RemovedSince(w) => RemovedSince(w)'
         /\ \A r \in Requests : op[r] # Nothing /\ TornIsDue(r) => TornIsDue(r)'
<1>0. \A w \in Requests : op[w] \in {"write_file", "rm"} => op[w] # Nothing
  BY RequestsAreNoWords DEF Ops
<1>1. ASSUME NEW f, NEW w \in Writes(f)
      PROVE  w \in Writes(f)' /\ before'[w] = before[w] /\ op[w] # Nothing
  <2>1. w \in Requests /\ op[w] = "write_file" /\ Named(w) = f
    BY <1>1 DEF Writes
  <2>2. op'[w] = "write_file" /\ Named(w)' = f /\ before'[w] = before[w]
    BY <1>0, <2>1, AskedStays
  <2> QED BY <1>0, <2>1, <2>2 DEF Writes
<1>2. ASSUME NEW f, NEW m \in Removals(f)
      PROVE  m \in Removals(f)'
  <2>1. m \in Requests /\ op[m] = "rm" /\ Named(m) = f
    BY <1>2 DEF Removals
  <2>2. op'[m] = "rm" /\ Named(m)' = f
    BY <1>0, <2>1, AskedStays
  <2> QED BY <2>1, <2>2 DEF Removals
<1>3. ASSUME NEW f, Shared(f) PROVE Shared(f)'
  <2>1. PICK v \in Writes(f), w \in Writes(f) : Overlap(v, w)
    BY <1>3 DEF Shared
  <2>2. /\ v \in Writes(f)' /\ w \in Writes(f)'
        /\ before'[v] = before[v] /\ before'[w] = before[w]
    BY <1>1
  <2> QED BY <2>1, <2>2 DEF Overlap, Shared
<1>4. ASSUME NEW w \in Requests, op[w] # Nothing, RemovedSince(w) PROVE RemovedSince(w)'
  <2>1. before'[w] = before[w] /\ Named(w)' = Named(w)
    BY <1>4, AskedStays
  <2>2. PICK m \in Removals(Named(w)) : m \notin before[w]
    BY <1>4 DEF RemovedSince
  <2>3. m \in Removals(Named(w))'
    BY <1>2, <2>1, <2>2
  <2> QED BY <2>1, <2>2, <2>3 DEF RemovedSince
<1>5. ASSUME NEW r \in Requests, op[r] # Nothing, TornIsDue(r) PROVE TornIsDue(r)'
  <2>1. before'[r] = before[r] /\ Named(r)' = Named(r)
    BY <1>5, AskedStays
  <2>2. PICK v \in Writes(Named(r)), q \in Writes(Named(r)) \cup {r} : Overlap(v, q)
    BY <1>5 DEF TornIsDue
  <2>3. /\ v \in Writes(Named(r))' /\ q \in Writes(Named(r))' \cup {r}
        /\ before'[v] = before[v] /\ before'[q] = before[q]
    BY <1>1, <2>1, <2>2
  <2> QED BY <2>1, <2>2, <2>3 DEF Overlap, TornIsDue
<1> QED BY <1>1, <1>2, <1>3, <1>4, <1>5

\* A request that was answered stays as it is.
LEMMA AnsweredStays ==
  ASSUME TypeOK, Life, [Next]_vars, NEW w \in Requests, stage[w] = "answered"
  PROVE  /\ op[w] # Nothing /\ reply'[w] = reply[w] /\ stage'[w] = "answered"
         /\ Named(w)' = Named(w) /\ op'[w] = op[w] /\ before'[w] = before[w]
         /\ Done(w)' <=> Done(w)
<1>1. op[w] # Nothing
  BY AskedStays
<1>2. Named(w)' = Named(w) /\ op'[w] = op[w] /\ before'[w] = before[w]
  BY <1>1, AskedStays
<1>3. reply'[w] = reply[w]
  <2>1. CASE Quiet
    BY <2>1 DEF Quiet, Refused
  <2>2. ASSUME NEW r \in Requests, Loud(r) PROVE reply'[w] = reply[w]
    <3>1. Only(r) /\ stage[r] # "answered"
      BY <2>2, OpenReadDoes, ReadDoneDoes, RmDoes, MakeDirDoes, OpenFileDoes, StoreDoes DEF Loud
    <3> QED BY <3>1 DEF Only
  <2> QED BY <2>1, <2>2, StepKinds
<1>4. reply[w] # Nothing /\ Life'
  BY LifeStep DEF Life
<1>5. stage'[w] = "answered"
  BY <1>3, <1>4 DEF Life
<1> QED BY <1>1, <1>2, <1>3, <1>5 DEF Done

\* Who is done after a step was asked before it, and was done, or is a removal
\* that finds no file, or one that removes it, or a write that opens it.
LEMMA DoneStep ==
  ASSUME TypeOK, Life, [Next]_vars, NEW w \in Requests, Done(w)'
  PROVE  /\ op[w] # Nothing /\ Named(w)' = Named(w) /\ op'[w] = op[w] /\ before'[w] = before[w]
         /\ Named(w) \in Nodes
         /\ \/ Done(w)
            \/ Quiet /\ op[w] = "rm" /\ ~IsFile(Named(w))
            \/ Rm(w) /\ IsFile(Named(w))
            \/ OpenFile(w) /\ ~IsFolder(Named(w)) /\ op[w] = "write_file"
<1>1. op[w] # Nothing
  BY AskedStays, RequestsAreNoWords DEF Done
<1>2. Named(w)' = Named(w) /\ op'[w] = op[w] /\ before'[w] = before[w] /\ Named(w) \in Nodes
  BY <1>1, AskedStays DEF Done
<1>3. ASSUME stage'[w] = stage[w], reply'[w] = reply[w] PROVE Done(w)
  BY <1>2, <1>3 DEF Done
<1>4. ASSUME Quiet PROVE Done(w) \/ (op[w] = "rm" /\ ~IsFile(Named(w)))
  <2>1. CASE op[w] = "rm" /\ stage'[w] = "answered" /\ stage[w] # "answered"
    <3>1. reply'[w] # reply[w]
      BY <2>1, LifeStep DEF Life
    <3> QED BY <1>4, <2>1, <3>1 DEF Quiet, Refused
  <2>2. CASE op[w] = "write_file"
    BY <1>2, <1>4, <2>2 DEF Done, Quiet, Refused
  <2>3. op[w] \in {"rm", "write_file"} /\ (op[w] = "rm" => stage'[w] = "answered")
    BY <1>2 DEF Done
  <2>4. CASE op[w] = "rm" /\ stage[w] = "answered"
    BY <1>2, <2>4 DEF Done
  <2> QED BY <2>1, <2>2, <2>3, <2>4
<1>5. ASSUME NEW r \in Requests, Loud(r)
      PROVE  \/ stage'[w] = stage[w] /\ reply'[w] = reply[w]
             \/ Done(w)
             \/ Rm(w) /\ IsFile(Named(w))
             \/ OpenFile(w) /\ ~IsFolder(Named(w)) /\ op[w] = "write_file"
  <2>1. CASE w # r
    <3>1. Only(r)
      BY <1>5, OpenReadDoes, ReadDoneDoes, RmDoes, MakeDirDoes, OpenFileDoes, StoreDoes DEF Loud
    <3> QED BY <2>1, <3>1 DEF Only
  <2>2. CASE w = r
    <3>1. CASE OpenRead(r) /\ IsFile(Named(r))
      BY <1>2, <2>2, <3>1, OpenReadDoes DEF Done
    <3>2. CASE ReadDone(r)
      BY <1>2, <2>2, <3>2, ReadDoneDoes DEF Done
    <3>3. CASE Rm(r) /\ IsFile(Named(r))
      BY <2>2, <3>3
    <3>4. CASE MakeDir(r) /\ ~Blocked(Named(r))
      BY <1>2, <2>2, <3>4, MakeDirDoes DEF Done
    <3>5. CASE OpenFile(r) /\ ~IsFolder(Named(r))
      BY <2>2, <3>5, OpenFileDoes
    <3>6. CASE Store(r)
      BY <1>2, <2>2, <3>6, StoreDoes DEF Done
    <3> QED BY <1>5, <3>1, <3>2, <3>3, <3>4, <3>5, <3>6 DEF Loud
  <2> QED BY <2>1, <2>2
<1> QED BY <1>1, <1>2, <1>3, <1>4, <1>5, StepKinds

\* "absent" and "folder" are no files.
LEMMA WordsAreNoFiles == "absent" \notin Files /\ "folder" \notin Files
  BY RequestsAreNoWords DEF Files

\* Contents change, and reads see a change, only by a write under way; a name
\* that is new is that of a file just emptied.
LEMMA DataStep ==
  ASSUME TypeOK, Life, NodesInv, [Next]_vars
  PROVE  /\ \A i \in Files : data'[i] = data[i] \/ \E v \in Requests : Fresh(data'[i], v)
         /\ \A n \in Nodes : \A i \in Files :
              node'[n] = i => node[n] = i \/ data'[i] = "partial"
         /\ \A q \in Requests :
              stage'[q] = "reading" =>
                \/ OpenRead(q) /\ IsFile(Named(q))
                \/ /\ stage[q] = "reading"
                   /\ \/ seen'[q] = seen[q]
                      \/ \E v \in Requests : \E c :
                           Named(v) = Named(q) /\ Fresh(c, v) /\ seen'[q] = seen[q] \cup {c}
<1> DEFINE ContentsChange == \A i \in Files : data'[i] = data[i] \/ \E v \in Requests : Fresh(data'[i], v)
           NamesChange == \A n \in Nodes : \A i \in Files :
                       node'[n] = i => node[n] = i \/ data'[i] = "partial"
           ReadSees(q) == \/ OpenRead(q) /\ IsFile(Named(q))
                        \/ /\ stage[q] = "reading"
                           /\ \/ seen'[q] = seen[q]
                              \/ \E v \in Requests : \E c :
                                   /\ Named(v) = Named(q) /\ Fresh(c, v)
                                   /\ seen'[q] = seen[q] \cup {c}
<1> SUFFICES /\ ContentsChange /\ NamesChange
             /\ \A q \in Requests : stage'[q] = "reading" => ReadSees(q)
  OBVIOUS
<1>1. CASE Quiet
  BY <1>1 DEF Quiet
\* A write under way puts a content into the file it has open.
<1>2. ASSUME NEW r \in Requests, NEW i \in Requests, NEW c \in {r, "mixed", "partial"},
             PutIn(i, c), Only(r), stage'[r] # "reading", Writing(r), Named(i) = Named(r)
      PROVE  ContentsChange /\ \A q \in Requests : stage'[q] = "reading" => ReadSees(q)
  <2>1. Fresh(c, r)
    BY <1>2 DEF Fresh
  <2>2. ContentsChange
    BY <1>2, <2>1 DEF PutIn
  <2>3. ASSUME NEW q \in Requests, stage'[q] = "reading" PROVE ReadSees(q)
    <3>1. stage[q] = "reading"
      BY <1>2, <2>3 DEF Only
    <3>2. CASE handle[q] = i
      <4>1. Named(r) = Named(q)
        BY <1>2, <3>1, <3>2 DEF NodesInv
      <4>2. seen'[q] = seen[q] \cup {c}
        BY <1>2, <3>1, <3>2 DEF PutIn
      <4> QED BY <2>1, <3>1, <4>1, <4>2
    <3>3. CASE handle[q] # i
      BY <1>2, <3>1, <3>3 DEF PutIn
    <3> QED BY <3>2, <3>3
  <2> QED BY <2>2, <2>3
<1>3. ASSUME NEW r \in Requests, Loud(r)
      PROVE  ContentsChange /\ NamesChange /\ \A q \in Requests : stage'[q] = "reading" => ReadSees(q)
  <2>1. CASE OpenRead(r) /\ IsFile(Named(r))
    BY <2>1, OpenReadDoes DEF Only
  <2>2. CASE ReadDone(r)
    BY <2>2, ReadDoneDoes DEF Only
  <2>3. CASE Rm(r) /\ IsFile(Named(r))
    BY <2>3, RmDoes, WordsAreNoFiles DEF Only
  <2>4. CASE MakeDir(r) /\ ~Blocked(Named(r))
    BY <2>4, MakeDirDoes, WordsAreNoFiles DEF Only
  <2>5. CASE OpenFile(r) /\ ~IsFolder(Named(r))
    <3>1. Named(r) \notin Outside /\ Writing(r)
      BY <2>5, OpenFileDoes, NamedInside DEF Writing, Wants
    <3>2. PICK i \in Files :
            /\ PutIn(i, "partial")
            /\ \A n \in Nodes : node'[n] = IF n = Named(r) THEN i ELSE node[n]
            /\ i = IF node[Named(r)] = "absent" THEN r ELSE node[Named(r)]
      BY <2>5, OpenFileDoes
    <3>3. i \in Requests /\ Named(i) = Named(r)
      BY <3>1, <3>2 DEF NodesInv, Files, Writing, Wants
    <3>4. NamesChange
      BY <3>2 DEF PutIn
    <3>5. ContentsChange /\ \A q \in Requests : stage'[q] = "reading" => ReadSees(q)
      BY <1>2, <2>5, <3>1, <3>2, <3>3, OpenFileDoes
    <3> QED BY <3>4, <3>5
  <2>6. CASE Store(r)
    <3>1. PICK i \in Requests : handle[r] = i /\ Named(i) = Named(r)
      BY <2>6, StoreDoes DEF NodesInv
    <3>2. PICK c \in {r, "mixed"} : PutIn(i, c)
      BY <2>6, <3>1, StoreDoes
    <3>3. Writing(r) /\ Only(r) /\ node' = node /\ stage'[r] # "reading"
      BY <2>6, StoreDoes DEF Writing, Wants
    <3> QED BY <1>2, <3>1, <3>2, <3>3
  <2> QED BY <1>3, <2>1, <2>2, <2>3, <2>4, <2>5, <2>6 DEF Loud
<1> QED BY <1>1, <1>3, StepKinds

\* What a write under way puts into a file is older than no answered request.
LEMMA FreshIsNotOld ==
  ASSUME TypeOK, Life, NEW c, NEW v \in Requests, Fresh(c, v), NEW w \in Requests
  PROVE  c \notin before[w]
<1>1. v \notin before[w]
  BY OpenIsNotBefore DEF Fresh, Writing
<1>2. before[w] \subseteq Requests
  BY DEF TypeOK
<1> QED BY <1>1, <1>2, RequestsAreNoWords DEF Fresh

-------------------------------------------------------------------------------
(* Every step keeps the invariant.                                         *)

LEMMA OldStep ==
  ASSUME TypeOK, Life, NodesInv, OldIsGone, [Next]_vars
  PROVE  OldIsGone'
<1> SUFFICES ASSUME NEW w \in Requests, Done(w)', IsFile(Named(w))'
             PROVE  data'[node'[Named(w)']] \notin before'[w]
  BY DEF OldIsGone
<1>1. Named(w)' = Named(w) /\ before'[w] = before[w] /\ Named(w) \in Nodes
  BY DoneStep
<1>2. PICK n \in Nodes : n = Named(w)
  BY <1>1
<1>3. PICK i \in Files : node'[n] = i
  BY <1>1, <1>2 DEF IsFile
<1> SUFFICES data'[i] \notin before[w]
  BY <1>1, <1>2, <1>3
<1>4. before[w] \subseteq Requests
  BY DEF TypeOK
<1>5. CASE data'[i] = "partial" \/ \E v \in Requests : Fresh(data'[i], v)
  BY <1>4, <1>5, FreshIsNotOld, RequestsAreNoWords
<1>6. CASE node[n] = i /\ data'[i] = data[i]
  <2>1. IsFile(Named(w))
    BY <1>2, <1>6 DEF IsFile
  <2>2. CASE Done(w)
    BY <1>2, <1>6, <2>1, <2>2 DEF OldIsGone
  <2>3. CASE Rm(w) /\ IsFile(Named(w))
    BY <1>2, <1>3, <2>3, RmDoes, WordsAreNoFiles
  <2>4. CASE OpenFile(w) /\ ~IsFolder(Named(w))
    <3>1. i = Opened(w)
      BY <1>2, <1>3, <2>4, OpenFileDoes
    <3>2. data'[i] = "partial"
      BY <2>4, <3>1, OpenFileDoes DEF PutIn
    <3> QED BY <1>5, <3>2
  <2> QED BY <2>1, <2>2, <2>3, <2>4, DoneStep
<1> QED BY <1>3, <1>5, <1>6, DataStep

LEMMA MissingStep ==
  ASSUME TypeOK, Life, NodesInv, MissingIsRemoved, [Next]_vars
  PROVE  MissingIsRemoved'
<1> SUFFICES ASSUME NEW w \in Requests, Done(w)', op'[w] = "write_file", ~IsFile(Named(w))'
             PROVE  RemovedSince(w)'
  BY DEF MissingIsRemoved
<1>1. /\ op[w] # Nothing /\ Named(w)' = Named(w) /\ op[w] = "write_file"
      /\ Named(w) \in Nodes
  BY DoneStep
<1>2. PICK n \in Nodes : n = Named(w)
  BY <1>1
<1>3. node'[n] \notin Files
  BY <1>1, <1>2 DEF IsFile
<1> SUFFICES RemovedSince(w)
  BY <1>1, Stays
<1>4. CASE ~IsFile(n) /\ Done(w)
  BY <1>1, <1>2, <1>4 DEF MissingIsRemoved
<1>5. CASE OpenFile(w) /\ ~IsFolder(Named(w))
  BY <1>2, <1>3, <1>5, OpenFileDoes
<1>6. CASE IsFile(n) /\ Done(w)
  <2>1. ~Quiet
    BY <1>3, <1>6 DEF Quiet, IsFile
  <2>2. PICK r \in Requests : Loud(r)
    BY <2>1, StepKinds
  <2>3. CASE OpenRead(r) /\ IsFile(Named(r))
    BY <1>3, <1>6, <2>3, OpenReadDoes DEF IsFile
  <2>4. CASE ReadDone(r)
    BY <1>3, <1>6, <2>4, ReadDoneDoes DEF IsFile
  <2>5. CASE Rm(r) /\ IsFile(Named(r))
    <3>1. n = Named(r) /\ op[r] = "rm" /\ stage[r] = "sent"
      BY <1>3, <1>6, <2>5, RmDoes DEF IsFile
    <3>2. r \in Removals(n) /\ r \notin before[w]
      BY <3>1, OpenIsNotBefore DEF Removals
    <3> QED BY <1>2, <3>2 DEF RemovedSince
  <2>6. CASE MakeDir(r) /\ ~Blocked(Named(r))
    BY <1>3, <1>6, <2>6, MakeDirDoes, WordsAreNoFiles DEF IsFile
  <2>7. CASE OpenFile(r) /\ ~IsFolder(Named(r))
    BY <1>3, <1>6, <2>7, OpenFileDoes DEF IsFile
  <2>8. CASE Store(r)
    BY <1>3, <1>6, <2>8, StoreDoes DEF IsFile
  <2> QED BY <2>2, <2>3, <2>4, <2>5, <2>6, <2>7, <2>8 DEF Loud
<1>7. ~Rm(w)
  BY <1>1 DEF Rm, Handled
<1> QED BY <1>1, <1>2, <1>4, <1>5, <1>6, <1>7, DoneStep

LEMMA PartialStep ==
  ASSUME TypeOK, Life, NodesInv, PartialIsOpen, [Next]_vars
  PROVE  PartialIsOpen'
<1> SUFFICES ASSUME NEW n \in Nodes, NEW i \in Files, node'[n] = i, data'[i] = "partial"
             PROVE  \E q \in Requests : stage'[q] = "opened" /\ handle'[q] = i
  BY DEF PartialIsOpen, Writers
<1>1. ASSUME node[n] = i, data[i] = "partial"
      PROVE  \E q \in Requests : stage[q] = "opened" /\ handle[q] = i
  BY <1>1 DEF PartialIsOpen, Writers
<1>2. CASE Quiet
  BY <1>1, <1>2 DEF Quiet
\* A step of a request that has no file open to write.
<1>3. ASSUME NEW r \in Requests, Only(r), stage[r] # "opened", node[n] = i, data[i] = "partial"
      PROVE  \E q \in Requests : stage'[q] = "opened" /\ handle'[q] = i
  BY <1>1, <1>3 DEF Only
<1>4. ASSUME NEW r \in Requests, Loud(r)
      PROVE  \E q \in Requests : stage'[q] = "opened" /\ handle'[q] = i
  <2>1. CASE OpenRead(r) /\ IsFile(Named(r))
    BY <1>3, <2>1, OpenReadDoes
  <2>2. CASE ReadDone(r)
    BY <1>3, <2>2, ReadDoneDoes
  <2>3. CASE Rm(r) /\ IsFile(Named(r))
    BY <1>3, <2>3, RmDoes, WordsAreNoFiles
  <2>4. CASE MakeDir(r) /\ ~Blocked(Named(r))
    BY <1>3, <2>4, MakeDirDoes, WordsAreNoFiles
  <2>5. CASE OpenFile(r) /\ ~IsFolder(Named(r))
    <3>1. CASE i = Opened(r)
      BY <2>5, <3>1, OpenFileDoes
    <3>2. CASE i # Opened(r)
      BY <1>3, <2>5, <3>2, OpenFileDoes DEF PutIn
    <3> QED BY <3>1, <3>2
  <2>6. CASE Store(r)
    <3>1. PICK c \in {r, "mixed"} : PutIn(handle[r], c)
      BY <2>6, StoreDoes
    <3>2. i # handle[r] /\ data[i] = "partial" /\ node[n] = i
      <4>1. c # "partial" /\ node' = node
        BY <2>6, StoreDoes, RequestsAreNoWords
      <4> QED BY <3>1, <4>1 DEF PutIn
    <3>3. PICK q \in Requests : stage[q] = "opened" /\ handle[q] = i
      BY <1>1, <3>2
    <3> QED BY <2>6, <3>2, <3>3, StoreDoes DEF Only
  <2> QED BY <1>4, <2>1, <2>2, <2>3, <2>4, <2>5, <2>6 DEF Loud
<1> QED BY <1>2, <1>4, StepKinds

\* Two writes that have a file open at once overlap.
LEMMA OpenOverlap ==
  ASSUME TypeOK, Life, NEW v \in Requests, NEW w \in Requests, v # w, stage[v] # "answered",
         stage[w] # "answered"
  PROVE  Overlap(v, w)
  BY OpenIsNotBefore DEF Overlap

LEMMA FullStep ==
  ASSUME TypeOK, Life, NodesInv, FullIsShared, [Next]_vars
  PROVE  FullIsShared'
<1> SUFFICES ASSUME NEW q \in Requests, NEW i \in Files, stage'[q] = "opened", handle'[q] = i,
                    data'[i] # "partial"
             PROVE  Shared(Named(q))'
  BY DEF FullIsShared
<1>1. Named(q)' = Named(q)
  BY AskedStays
<1> SUFFICES Shared(Named(q))
  BY <1>1, Stays
<1>2. ASSUME stage[q] = "opened", handle[q] = i, data[i] # "partial" PROVE Shared(Named(q))
  BY <1>2 DEF FullIsShared
<1>3. CASE Quiet
  BY <1>2, <1>3 DEF Quiet
<1>4. ASSUME NEW r \in Requests, Loud(r) PROVE Shared(Named(q))
  <2>1. CASE OpenRead(r) /\ IsFile(Named(r))
    BY <1>2, <2>1, OpenReadDoes DEF Only
  <2>2. CASE ReadDone(r)
    BY <1>2, <2>2, ReadDoneDoes DEF Only
  <2>3. CASE Rm(r) /\ IsFile(Named(r))
    BY <1>2, <2>3, RmDoes DEF Only
  <2>4. CASE MakeDir(r) /\ ~Blocked(Named(r))
    BY <1>2, <2>4, MakeDirDoes DEF Only
  <2>5. CASE OpenFile(r) /\ ~IsFolder(Named(r))
    <3>1. i # Opened(r) /\ data'[i] = data[i]
      BY <2>5, OpenFileDoes DEF PutIn
    <3>2. q # r
      BY <2>5, <3>1, OpenFileDoes
    <3> QED BY <1>2, <2>5, <3>1, <3>2, OpenFileDoes DEF Only
  <2>6. CASE Store(r)
    <3>1. q # r /\ stage[q] = "opened" /\ handle[q] = i /\ stage[r] = "opened"
      BY <2>6, StoreDoes DEF Only
    <3>2. CASE handle[r] = i
      <4>1. Named(r) = Named(q) /\ Overlap(r, q)
        BY <3>1, <3>2, OpenOverlap DEF NodesInv
      <4>2. r \in Writes(Named(q)) /\ q \in Writes(Named(q))
        BY <3>1, <4>1 DEF Life, Writes
      <4> QED BY <4>1, <4>2 DEF Shared
    <3>3. CASE handle[r] # i
      BY <1>2, <2>6, <3>1, <3>3, StoreDoes DEF PutIn
    <3> QED BY <3>2, <3>3
  <2> QED BY <1>4, <2>1, <2>2, <2>3, <2>4, <2>5, <2>6 DEF Loud
<1> QED BY <1>3, <1>4, StepKinds

LEMMA MixedStep ==
  ASSUME TypeOK, Life, NodesInv, FullIsShared, MixedIsShared, [Next]_vars
  PROVE  MixedIsShared'
<1> SUFFICES ASSUME NEW i \in Requests, data'[i] = "mixed"
             PROVE  Wants(i)' /\ Shared(Named(i))'
  BY DEF MixedIsShared
<1>0. i \in Files
  BY DEF Files
<1> SUFFICES Wants(i) /\ Shared(Named(i))
  BY Stays, WantsAsked, WantsStays
<1>1. ASSUME data'[i] = data[i] PROVE Wants(i) /\ Shared(Named(i))
  BY <1>1 DEF MixedIsShared
<1>2. CASE Quiet
  BY <1>1, <1>2 DEF Quiet
<1>3. ASSUME NEW r \in Requests, Loud(r) PROVE Wants(i) /\ Shared(Named(i))
  <2>1. CASE OpenRead(r) /\ IsFile(Named(r))
    BY <1>1, <2>1, OpenReadDoes
  <2>2. CASE ReadDone(r)
    BY <1>1, <2>2, ReadDoneDoes
  <2>3. CASE Rm(r) /\ IsFile(Named(r))
    BY <1>1, <2>3, RmDoes
  <2>4. CASE MakeDir(r) /\ ~Blocked(Named(r))
    BY <1>1, <2>4, MakeDirDoes
  <2>5. CASE OpenFile(r) /\ ~IsFolder(Named(r))
    BY <1>0, <1>1, <2>5, OpenFileDoes DEF PutIn
  <2>6. CASE Store(r)
    <3>1. CASE handle[r] # i
      BY <1>0, <1>1, <2>6, <3>1, StoreDoes DEF PutIn
    <3>2. CASE handle[r] = i
      <4>1. Wants(i) /\ Named(i) = Named(r) /\ stage[r] = "opened"
        BY <2>6, <3>2, StoreDoes DEF NodesInv
      <4>2. data[i] # "partial" \/ \E q \in Writers(i) : q # r
        <5>1. PICK c \in {r, "mixed"} :
                /\ PutIn(i, c)
                /\ c = "mixed" => data[i] # "partial" \/ \E q \in Writers(i) : q # r
          BY <2>6, <3>2, StoreDoes
        <5>2. c = data'[i] /\ r # "mixed"
          BY <1>0, <5>1, RequestsAreNoWords DEF PutIn
        <5> QED BY <5>1, <5>2
      <4>3. CASE data[i] # "partial"
        BY <1>0, <3>2, <4>1, <4>3 DEF FullIsShared
      <4>4. CASE \E q \in Writers(i) : q # r
        <5>1. PICK q \in Requests : q # r /\ stage[q] = "opened" /\ handle[q] = i
          BY <4>4 DEF Writers
        <5>2. Named(q) = Named(r) /\ Overlap(q, r)
          BY <4>1, <5>1, OpenOverlap DEF NodesInv
        <5>3. q \in Writes(Named(i)) /\ r \in Writes(Named(i))
          BY <4>1, <5>1, <5>2 DEF Life, Writes
        <5> QED BY <4>1, <5>2, <5>3 DEF Shared
      <4> QED BY <4>1, <4>2, <4>3, <4>4
    <3> QED BY <3>1, <3>2
  <2> QED BY <1>3, <2>1, <2>2, <2>3, <2>4, <2>5, <2>6 DEF Loud
<1> QED BY <1>2, <1>3, StepKinds

\* What a read that has just opened its file has seen.
LEMMA SeenAtOpen ==
  ASSUME TypeOK, Life, NodesInv, PrivateInv, OldIsGone, PartialIsOpen, MixedIsShared,
         NEW r \in Requests, OpenRead(r), IsFile(Named(r))
  PROVE  /\ \A w \in before[r] : Done(w) /\ Named(w) = Named(r) => seen'[r] \cap before[w] = {}
         /\ TornIsDue(r) \/ \E c \in Whole : seen'[r] = {c}
<1>1. Named(r) \in Nodes \ Outside /\ node[Named(r)] \in Files
  BY OpenReadDoes, NamedInside
<1>2. PICK i \in Requests : i = node[Named(r)] /\ Wants(i) /\ Named(i) = Named(r)
  BY <1>1 DEF NodesInv, Files
<1>3. i \in Files /\ stage[r] = "sent"
  BY <1>2, OpenReadDoes DEF Files
<1>4. seen'[r] = {data[i]} \cup (IF Writers(i) = {} THEN {} ELSE {"partial"})
  BY <1>2, OpenReadDoes
<1>5. ASSUME NEW w \in before[r], Done(w), Named(w) = Named(r)
      PROVE  seen'[r] \cap before[w] = {}
  <2>1. w \in Requests /\ before[w] \subseteq Requests
    BY <1>5 DEF TypeOK
  <2>2. data[i] \notin before[w]
    BY <1>1, <1>2, <1>5, <2>1 DEF OldIsGone, IsFile
  <2> QED BY <1>4, <2>1, <2>2, RequestsAreNoWords
<1>6. CASE Writers(i) # {}
  <2>1. PICK q \in Requests : stage[q] = "opened" /\ handle[q] = i
    BY <1>6 DEF Writers
  <2>2. Named(q) = Named(r)
    BY <1>2, <2>1 DEF NodesInv
  <2>3. q \in Writes(Named(r)) /\ Overlap(q, r)
    BY <1>3, <2>1, <2>2, OpenOverlap DEF Life, Writes
  <2> QED BY <1>5, <2>3 DEF TornIsDue
<1>7. CASE Writers(i) = {}
  <2>1. seen'[r] = {data[i]} /\ data[i] # "partial"
    BY <1>1, <1>2, <1>3, <1>4, <1>7 DEF PartialIsOpen
  <2>2. CASE data[i] = "mixed"
    BY <1>2, <1>5, <2>2 DEF MixedIsShared, Shared, TornIsDue
  <2>3. CASE data[i] # "mixed"
    <3>1. data[i] \in Whole
      BY <1>3, <2>1, <2>3 DEF TypeOK, Contents
    <3> QED BY <1>5, <2>1, <3>1
  <2> QED BY <2>2, <2>3
<1> QED BY <1>6, <1>7

LEMMA SeenStep ==
  ASSUME TypeOK, Life, NodesInv, PrivateInv, FilesInv, [Next]_vars
  PROVE  SeenInv'
<1> USE DEF FilesInv
<1> SUFFICES ASSUME NEW r \in Requests, stage'[r] = "reading"
             PROVE  /\ \A w \in before'[r] :
                         Done(w)' /\ Named(w)' = Named(r)' => seen'[r] \cap before'[w] = {}
                    /\ TornIsDue(r)' \/ \E c \in Whole : seen'[r] = {c}
  BY DEF SeenInv
<1>1. op[r] # Nothing /\ Named(r)' = Named(r) /\ before'[r] = before[r]
  BY AskedStays
<1>2. ASSUME NEW w \in before[r]
      PROVE  /\ Done(w)' <=> Done(w)
             /\ Named(w)' = Named(w) /\ before'[w] = before[w] /\ w \in Requests
  <2>1. w \in Requests /\ stage[w] = "answered"
    BY <1>2 DEF Life, TypeOK
  <2> QED BY <2>1, AnsweredStays
<1> SUFFICES /\ \A w \in before[r] : Done(w) /\ Named(w) = Named(r) => seen'[r] \cap before[w] = {}
             /\ TornIsDue(r) \/ \E c \in Whole : seen'[r] = {c}
  BY <1>1, <1>2, Stays
<1>3. CASE OpenRead(r) /\ IsFile(Named(r))
  BY <1>3, SeenAtOpen
<1>4. CASE stage[r] = "reading" /\ seen'[r] = seen[r]
  BY <1>4 DEF SeenInv
<1>5. ASSUME stage[r] = "reading", NEW v \in Requests, NEW c, Named(v) = Named(r), Fresh(c, v),
             seen'[r] = seen[r] \cup {c}
      PROVE  /\ \A w \in before[r] :
                  Done(w) /\ Named(w) = Named(r) => seen'[r] \cap before[w] = {}
             /\ TornIsDue(r)
  <2>1. ASSUME NEW w \in before[r], Done(w), Named(w) = Named(r)
        PROVE  seen'[r] \cap before[w] = {}
    <3>1. c \notin before[w]
      BY <1>2, <1>5, <2>1, FreshIsNotOld
    <3>2. seen[r] \cap before[w] = {}
      BY <1>5, <2>1 DEF SeenInv
    <3> QED BY <1>5, <3>1, <3>2
  <2>2. op[r] = "read_file" /\ op[v] = "write_file" /\ stage[v] # "answered"
    BY <1>5 DEF Life, Fresh, Writing, Wants
  <2>3. v # r /\ v \in Writes(Named(r))
    BY <1>5, <2>2 DEF Writes
  <2>4. Overlap(v, r)
    BY <1>5, <2>2, <2>3, OpenOverlap
  <2> QED BY <2>1, <2>3, <2>4 DEF TornIsDue
<1> QED BY <1>3, <1>4, <1>5, DataStep

LEMMA RepliesStep ==
  ASSUME TypeOK, Life, NodesInv, FilesInv, [Next]_vars
  PROVE  RepliesInv'
<1> USE DEF FilesInv
<1> SUFFICES ASSUME NEW r \in Requests, op'[r] = "read_file", Named(r)' \in Nodes
             PROVE  /\ \A w \in before'[r] :
                         Done(w)' /\ Named(w)' = Named(r)' =>
                           /\ reply'[r] \notin before'[w]
                           /\ op'[w] = "write_file" /\ reply'[r] = "null" => RemovedSince(w)'
                    /\ reply'[r] = "torn" => TornIsDue(r)'
  BY DEF RepliesInv
<1>0. \A w \in Requests : before[w] \subseteq Requests /\ before'[w] \subseteq Requests
  BY LifeStep DEF TypeOK
<1>1. CASE op[r] = Nothing
  <2>1. reply'[r] = Nothing
    BY <1>1, AskedStays
  <2>2. Nothing # "null" /\ Nothing # "torn" /\ Nothing \notin Requests
    BY FileRequestsAssumption DEF Words
  <2> QED BY <1>0, <2>1, <2>2
<1>2. CASE op[r] # Nothing
  <2>1. Named(r)' = Named(r) /\ before'[r] = before[r] /\ op'[r] = op[r]
    BY <1>2, AskedStays
  <2>2. ASSUME NEW w \in before[r]
        PROVE  /\ w \in Requests /\ op[w] # Nothing /\ op'[w] = op[w] /\ before'[w] = before[w]
               /\ (Done(w)' <=> Done(w)) /\ Named(w)' = Named(w)
    <3>1. w \in Requests /\ stage[w] = "answered"
      BY <2>2 DEF Life, TypeOK
    <3> QED BY <3>1, AnsweredStays
  <2> SUFFICES /\ \A w \in before[r] :
                    Done(w) /\ Named(w) = Named(r) =>
                      /\ reply'[r] \notin before[w]
                      /\ op[w] = "write_file" /\ reply'[r] = "null" => RemovedSince(w)
               /\ reply'[r] = "torn" => TornIsDue(r)
    BY <1>2, <2>1, <2>2, Stays
  <2>3. CASE reply'[r] = reply[r]
    BY <2>1, <2>3 DEF RepliesInv
  <2>4. CASE Quiet /\ reply'[r] # reply[r]
    <3>1. /\ ~IsFile(Named(r))
          /\ reply'[r] \in {"ok", "failed", "null", "entries", "no entries"}
      BY <2>1, <2>4 DEF Quiet, Refused
    <3>2. reply'[r] \notin Requests /\ reply'[r] # "torn"
      BY <3>1, RequestsAreNoWords
    <3>3. \A w \in before[r] :
            Done(w) /\ Named(w) = Named(r) /\ op[w] = "write_file" => RemovedSince(w)
      BY <2>2, <3>1 DEF MissingIsRemoved
    <3> QED BY <1>0, <2>2, <3>2, <3>3
  <2>5. CASE ReadDone(r)
    <3>1. /\ stage[r] = "reading"
          /\ \/ reply'[r] \in seen[r] \cap Whole
             \/ reply'[r] = "torn" /\ \A w \in Whole : seen[r] # {w}
      BY <2>5, ReadDoneDoes
    <3>2. CASE reply'[r] \in seen[r] \cap Whole
      <4>1. reply'[r] # "null" /\ reply'[r] # "torn"
        BY <3>2, RequestsAreNoWords DEF Whole
      <4> QED BY <3>1, <3>2, <4>1 DEF SeenInv
    <3>3. CASE reply'[r] = "torn" /\ \A w \in Whole : seen[r] # {w}
      BY <1>0, <2>2, <3>1, <3>3, RequestsAreNoWords DEF SeenInv
    <3> QED BY <3>1, <3>2, <3>3
  <2>6. ASSUME NEW q \in Requests, Loud(q) PROVE reply'[r] = reply[r] \/ ReadDone(r)
    <3>1. CASE q # r
      <4>1. Only(q)
        BY <2>6, OpenReadDoes, ReadDoneDoes, RmDoes, MakeDirDoes, OpenFileDoes, StoreDoes DEF Loud
      <4> QED BY <3>1, <4>1 DEF Only
    <3>2. CASE q = r
      BY <2>1, <2>6, <3>2, OpenReadDoes, RmDoes, MakeDirDoes, OpenFileDoes, StoreDoes DEF Loud
    <3> QED BY <3>1, <3>2
  <2> QED BY <2>3, <2>4, <2>5, <2>6, StepKinds
<1> QED BY <1>1, <1>2

ReadsInv == NamesInv /\ FilesInv

\* The invariant of the reads.
LEMMA ReadsInvariant == Spec => []ReadsInv
<1>1. Init => ReadsInv
  <2> SUFFICES ASSUME Init PROVE NamesInv /\ FilesInv
    BY DEF ReadsInv
  <2>1. NamesInv
    <3>1. NodesInv
      BY RequestsAreNoWords DEF Init, NodesInv
    <3>2. PrivateInv
      BY RequestsAreNoWords DEF Init, PrivateInv, Files
    <3>3. ConflictInv
      BY RequestsAreNoWords DEF Init, ConflictInv
    <3> QED BY <3>1, <3>2, <3>3, LifeInit DEF NamesInv
  <2>2. \A r \in Requests : op[r] = Nothing /\ stage[r] = "idle" /\ reply[r] = Nothing
    BY DEF Init
  <2>3. \A r \in Requests : ~Done(r)
    BY <2>2, RequestsAreNoWords DEF Done, Ops
  <2>4. \A n \in Nodes : node[n] \in {"absent", "private"}
    BY DEF Init
  <2>5. data["private"] # "partial" /\ \A i \in Requests : data[i] # "mixed"
    BY RequestsAreNoWords DEF Init, Files
  <2>6. \A n \in Nodes : \A i \in Files : node[n] = i => i = "private"
    BY <2>4, WordsAreNoFiles
  <2> QED BY <2>1, <2>2, <2>3, <2>5, <2>6, RequestsAreNoWords
          DEF FilesInv, OldIsGone, MissingIsRemoved, PartialIsOpen, FullIsShared,
              MixedIsShared, SeenInv, RepliesInv, Ops
<1>2. ReadsInv /\ [Next]_vars => ReadsInv'
  <2> SUFFICES ASSUME ReadsInv, [Next]_vars PROVE NamesInv' /\ FilesInv'
    BY DEF ReadsInv
  <2>1. TypeOK /\ Life /\ NodesInv /\ PrivateInv /\ ConflictInv
    BY DEF ReadsInv, NamesInv
  <2>2. NamesInv'
    BY <2>1, LifeStep, NodesStep, PrivateStep, ConflictStep DEF NamesInv
  <2>3. FilesInv
    BY DEF ReadsInv
  <2> QED BY <2>1, <2>2, <2>3, OldStep, MissingStep, PartialStep, FullStep, MixedStep, SeenStep,
             RepliesStep DEF FilesInv
<1> QED BY <1>1, <1>2, PTL DEF Spec

-------------------------------------------------------------------------------

\* What a caller was told a read returned is the device's reply to it.
LEMMA ToldIsReply ==
  ASSUME Life, NEW r \in Requests, op[r] = "read_file",
         response[r] \notin {"none", "timeout"} \cup Refusals
  PROVE  reply[r] # Nothing /\ response[r] = IF reply[r] = "null" THEN "404" ELSE reply[r]
  BY DEF Life, Acknowledged, Told

\* A read sees every removal, and every write carried out, that was acknowledged
\* before it, though it may take long and overlap with others.
THEOREM FilesHaveNoStaleReads == Spec => []NoStaleReads
<1>1. ReadsInv => NoStaleReads
  <2> SUFFICES ASSUME ReadsInv, NEW f \in Nodes, NEW r \in Reads(f)
               PROVE  /\ \A w \in (Writes(f) \cup Removals(f)) \cap before[r] :
                           reply[w] = "ok" \/ op[w] = "rm" => response[r] \notin before[w]
                      /\ \A w \in Writes(f) \cap before[r] :
                           reply[w] = "ok" /\ response[r] = "404" => ~(Removals(f) \subseteq before[w])
    BY DEF NoStaleReads
  <2> USE DEF ReadsInv, NamesInv
  <2>0. r \in Requests /\ op[r] = "read_file" /\ Named(r) = f
    BY DEF Reads
  <2>1. ASSUME NEW w \in (Writes(f) \cup Removals(f)) \cap before[r],
               reply[w] = "ok" \/ op[w] = "rm"
        PROVE  /\ w \in Requests /\ Named(w) = f /\ before[w] \subseteq Requests
               /\ reply[r] \notin before[w]
               /\ op[w] = "write_file" /\ reply[r] = "null" => RemovedSince(w)
    <3>1. /\ w \in Requests /\ Named(w) = f /\ stage[w] = "answered"
          /\ op[w] \in {"write_file", "rm"} /\ before[w] \subseteq Requests
      BY <2>0, <2>1 DEF Writes, Removals, Life, TypeOK
    <3>2. Done(w)
      BY <2>1, <3>1 DEF Done
    <3> QED BY <2>0, <2>1, <3>1, <3>2 DEF FilesInv, RepliesInv
  <2>2. \A q \in Requests : q \notin {"none", "timeout", "400", "unreachable", "404"}
    BY FileRequestsAssumption DEF Words
  <2>3. ASSUME NEW w \in (Writes(f) \cup Removals(f)) \cap before[r],
               reply[w] = "ok" \/ op[w] = "rm"
        PROVE  response[r] \notin before[w]
    BY <2>0, <2>1, <2>2, <2>3, ToldIsReply DEF Refusals
  <2>4. ASSUME NEW w \in Writes(f) \cap before[r], reply[w] = "ok", response[r] = "404"
        PROVE  ~(Removals(f) \subseteq before[w])
    <3>1. reply[r] = "null"
      <4>1. reply[r] # "404"
        BY <2>0, FileRequestsAssumption DEF TypeOK, Replies, Whole, Words
      <4> QED BY <2>0, <2>4, <4>1, ToldIsReply DEF Refusals
    <3>2. op[w] = "write_file" /\ Named(w) = f
      BY DEF Writes
    <3>3. RemovedSince(w)
      BY <2>1, <2>4, <3>1, <3>2
    <3> QED BY <3>2, <3>3 DEF RemovedSince
  <2> QED BY <2>3, <2>4
<1> QED BY <1>1, ReadsInvariant, PTL

\* What no request wrote is read only where a write overlaps the read or another
\* write of the file.
THEOREM TornFileReadsNeedAWriter == Spec => []TornReadsNeedAWriter
<1>1. ReadsInv => TornReadsNeedAWriter
  <2> SUFFICES ASSUME ReadsInv, NEW f \in Nodes, NEW r \in Reads(f), response[r] = "torn"
               PROVE  TornIsDue(r) /\ Named(r) = f
    BY DEF TornReadsNeedAWriter, TornIsDue
  <2>1. r \in Requests /\ op[r] = "read_file" /\ Named(r) = f
    BY DEF Reads
  <2>2. reply[r] = "torn"
    BY <2>1, ToldIsReply DEF ReadsInv, NamesInv, Refusals
  <2> QED BY <2>1, <2>2 DEF ReadsInv, FilesInv, RepliesInv
<1> QED BY <1>1, ReadsInvariant, PTL
===============================================================================
