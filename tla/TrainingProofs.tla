---------------------------- MODULE TrainingProofs ----------------------------
(***************************************************************************)
(* Theorems about ChampionRegistry for transactions of one dataset that    *)
(* overlap as they like, as nothing in the code keeps them apart: which    *)
(* artifacts can be overwritten, and which promotions can be a mistake.    *)
(* Two transactions that overlap have met; what a run has read is out of   *)
(* date only when one that it has met has committed since.                 *)
(***************************************************************************)
EXTENDS ChampionRegistryProofs

Closed == {"idle", "done"}

(* After the choice of the champion, until the transaction ends *)
Picked == Chosen \cup {"crown", "promote", "rollback"}

Ahead(r) == IF r = NoRow THEN 1 ELSE r.version + 1

(* A model row as the commit of c leaves it *)
After(c, m) == IF mine[c][m] # NoRow THEN mine[c][m] ELSE row[m]

(* Transactions that are open at once have met, and meetings are mutual *)
Meetings ==
    \A c, d \in Writers :
        /\ c # d /\ {c, d} \subseteq Open => d \in met[c]
        /\ d \in met[c] => c \in met[d]

(* The artifact of row r is the work of its author or of who has met it *)
Kept(m, r) ==
    /\ r.author \in Writers
    /\ \E f \in file : SamePath(f, Artifact(m, r)) /\ f.author \in {r.author} \cup met[r.author]

Rowed == \A m \in Models : row[m] # NoRow => Kept(m, row[m])

Written(c) ==
    \A m \in Models : mine[c][m] # NoRow => mine[c][m].author = c /\ Kept(m, mine[c][m])

(* What c has read of a model is committed still, or was replaced by a run *)
(* that c has met.                                                         *)
ReadOf(c, m) == view[c][m] = row[m] \/ (row[m] # NoRow /\ row[m].author \in met[c])

Drafted(c) ==
    /\ pc[c] \in {"save", "register"} =>
          /\ draft[c].version = Ahead(view[c][Current(c)]) /\ draft[c].author = c
          /\ ReadOf(c, Current(c))
    /\ pc[c] = "register" => Kept(Current(c), draft[c])

Seen(c) == Overtaken(c) \/ \A m \in Models : view[c][m] \in {NoRow, row[m]}

(* The run's pick beats the champion as the commit leaves it *)
Better(c) ==
    c \in Runs /\ pick[c] # NoModel =>
        /\ pc[c] \in Picked
        /\ champion # NoModel =>
              \/ Overtaken(c)
              \/ mine[c][pick[c]] # NoRow /\ mine[c][pick[c]].acc > After(c, champion).acc

(* A transaction that is not open holds nothing *)
Clean(c) == pc[c] \in Closed => mine[c] = NoRows /\ view[c] = NoRows /\ pick[c] = NoModel

Books(c) == Written(c) /\ Drafted(c) /\ Seen(c) /\ Better(c) /\ Clean(c)

Orderly == Meetings /\ Rowed /\ \A c \in Writers : Books(c)

(* A step of client c is no step of another, and it forgets no meeting *)
Apart(c) ==
    /\ \A d \in Writers \ {c} :
        /\ pc'[d] = pc[d] /\ view'[d] = view[d] /\ draft'[d] = draft[d]
        /\ mine'[d] = mine[d] /\ pick'[d] = pick[d] /\ at'[d] = at[d]
    /\ \A w \in Writers : met[w] \subseteq met'[w]
    /\ pc[c] = "done" => pc'[c] = "done"

LEMMA MeetingsLast ==
    ASSUME TypeOK, Meetings, NEW c \in Writers,
           \/ met' = met /\ Open' \subseteq Open
           \/ Meet(c) /\ Open' \subseteq Open \cup {c} /\ c \notin Open
    PROVE  Meetings' /\ \A w \in Writers : met[w] \subseteq met'[w]
<1>1. CASE met' = met /\ Open' \subseteq Open
  BY <1>1 DEF Meetings
<1>2. CASE Meet(c) /\ Open' \subseteq Open \cup {c} /\ c \notin Open
  <2>1. \A w \in Writers : met[w] \subseteq met'[w]
    BY <1>2 DEF Meet
  <2>2. QED
    BY <1>2, <2>1 DEF Meetings, Meet
<1>3. QED
  BY <1>1, <1>2

-----------------------------------------------------------------------------
(* Steps of others *)

(* Nothing that is committed or on disk changes *)
LEMMA OthersStill ==
    ASSUME TypeOK, Orderly, NEW c \in Clients, Apart(c), UNCHANGED <<dbVars, file>>,
           NEW d \in Writers \ {c}
    PROVE  Books(d)'
<1>1. Books(d) /\ Current(d)' = Current(d) /\ met[d] \subseteq met'[d]
  BY DEF Orderly, Apart, Current
<1>2. \A w \in Writers : pc[w] = "done" => pc'[w] = "done"
  BY DEF Apart
<1>3. Overtaken(d) => Overtaken(d)'
  BY <1>1, <1>2 DEF Overtaken, TypeOK
<1>4. ASSUME NEW m \in Models, NEW r, Kept(m, r) PROVE Kept(m, r)'
  BY <1>4 DEF Kept, Apart
<1>5. Written(d)'
  BY <1>1, <1>4 DEF Books, Written, Apart, Kept
<1>6. Drafted(d)'
  BY <1>1, <1>4 DEF Books, Drafted, ReadOf, Apart, dbVars, Kept
<1>7. Seen(d)' /\ Better(d)' /\ Clean(d)'
  BY <1>1, <1>3 DEF Books, Seen, Better, Clean, After, Apart, dbVars
<1>8. QED
  BY <1>5, <1>6, <1>7 DEF Books

LEMMA RowedStill ==
    ASSUME Rowed, NEW c \in Clients, Apart(c), UNCHANGED <<dbVars, file>>
    PROVE  Rowed'
<1>1. ASSUME NEW m \in Models, row[m] # NoRow PROVE Kept(m, row[m])'
  BY <1>1 DEF Rowed, Kept, Apart, dbVars
<1>2. QED
  BY <1>1 DEF Rowed, dbVars

LEMMA StillStep ==
    ASSUME TypeOK, Orderly, NEW c \in Clients, Apart(c), UNCHANGED <<dbVars, file>>,
           Meetings', c \in Writers => Books(c)'
    PROVE  Orderly'
BY OthersStill, RowedStill DEF Orderly

(* A writer's step that does not touch its books *)
LEMMA OwnStill ==
    ASSUME TypeOK, Orderly, NEW c \in Writers,
           UNCHANGED <<dbVars, file, view, draft, mine, pick, at, met>>, pc[c] \notin Closed,
           NEW to, pc' = [pc EXCEPT ![c] = to], to \notin {"save", "register"} \cup Closed,
           c \in Runs /\ pc[c] \in Picked => to \in Picked
    PROVE  Orderly'
<1>1. c \in Clients /\ pc'[c] = to /\ Apart(c)
  BY WritersAreClients DEF TypeOK, Apart, Closed
<1>2. Open' \subseteq Open
  BY <1>1, WritersAreClients DEF Open, Closed, TypeOK
<1>3. Books(c) /\ Meetings
  BY DEF Orderly
<1>4. Books(c)'
  <2>1. Overtaken(c) => Overtaken(c)'
    BY <1>1 DEF Overtaken, Apart, TypeOK, Closed
  <2>2. Written(c)' /\ Drafted(c)' /\ Clean(c)'
    BY <1>1, <1>3 DEF Books, Written, Drafted, Clean, Kept
  <2>3. Seen(c)' /\ Better(c)'
    BY <1>1, <1>3, <2>1 DEF Books, Seen, Better, After, dbVars
  <2>4. QED
    BY <2>2, <2>3 DEF Books
<1>5. QED
  BY <1>1, <1>2, <1>3, <1>4, MeetingsLast, StillStep

LEMMA QuietWriter ==
    ASSUME TypeOK, Orderly, NEW c \in Writers,
           \/ c \in Runs /\ (RegisterConflict(c) \/ RefreshDropModel(c) \/ Crown(c)
                             \/ CrownConflict(c) \/ RefreshDropAlias(c))
           \/ Promote(c) \/ Failure(c)
           \/ c \in Rollbacks /\ RollbackTouch(c)
    PROVE  Orderly'
<1>1. UNCHANGED <<dbVars, file, view, draft, mine, pick, at, met>>
  BY DEF RegisterConflict, RefreshDropModel, Crown, Promote, Enthrone, CrownConflict,
     RefreshDropAlias, Failure, CommitFails, Abort, RollbackTouch, sharedVars
<1>2. \E to : /\ pc' = [pc EXCEPT ![c] = to] /\ to \notin {"save", "register"} \cup Closed
              /\ pc[c] \notin Closed
              /\ c \in Runs /\ pc[c] \in Picked => to \in Picked
  BY ClientsAssumption
  DEF RegisterConflict, RefreshDropModel, Crown, Promote, Enthrone, CrownConflict,
     RefreshDropAlias, Failure, CommitFails, Abort, RollbackTouch, Goto, Closed, Picked, Chosen
<1>3. QED
  BY <1>1, <1>2, OwnStill

(* Lookups of a run may move its place in the list of trainers *)
LEMMA RunLookup ==
    ASSUME TypeOK, Orderly, NEW c \in Runs, LookupStep(c)
    PROVE  Orderly'
<1>1. UNCHANGED <<dbVars, file, view, draft, mine, pick, met>>
  BY DEF LookupStep, LoadModel, FillModel, LoadAlias, LoadRow, FillName, FillId, sharedVars
<1>2. c \notin Readers /\ c \in Writers /\ c \in Clients
  BY ClientsAssumption, WritersAreClients
<1>3. \E to : /\ pc' = [pc EXCEPT ![c] = to] /\ to \notin {"save", "register"} \cup Closed
              /\ pc[c] \notin Closed /\ (pc[c] \in Picked => to \in Picked)
  BY <1>2 DEF LookupStep, LoadModel, FillModel, LoadAlias, LoadRow, FillName, FillId,
     ModelLookedUp, AliasLookedUp, NextTrainer, Goto, Closed, Picked, Chosen
<1>4. Apart(c) /\ Open' \subseteq Open
  <2>1. at' = at \/ \E i : at' = [at EXCEPT ![c] = i]
    BY <1>2 DEF LookupStep, LoadModel, FillModel, LoadAlias, LoadRow, FillName, FillId,
       ModelLookedUp, NextTrainer
  <2>2. QED
    BY <1>1, <1>2, <1>3, <2>1, WritersAreClients DEF Apart, Open, Closed, TypeOK
<1>5. Books(c) /\ Meetings
  BY <1>2 DEF Orderly
<1>6. Books(c)'
  <2>1. Overtaken(c) => Overtaken(c)'
    BY <1>1, <1>2, <1>3 DEF Overtaken, Closed, TypeOK
  <2>2. Written(c)' /\ Drafted(c)' /\ Clean(c)'
    BY <1>1, <1>2, <1>3, <1>5 DEF Books, Written, Drafted, Clean, Kept, TypeOK
  <2>3. Seen(c)' /\ Better(c)'
    BY <1>1, <1>2, <1>3, <1>5, <2>1 DEF Books, Seen, Better, After, dbVars, TypeOK
  <2>4. QED
    BY <2>2, <2>3 DEF Books
<1>7. QED
  BY <1>1, <1>2, <1>4, <1>5, <1>6, MeetingsLast, StillStep

(* Readers have no transaction *)
LEMMA ReaderStep ==
    ASSUME TypeOK, Orderly, NEW r \in Readers, Ask(r) \/ LookupStep(r)
    PROVE  Orderly'
<1>1. UNCHANGED <<dbVars, file, view, draft, mine, pick, met>>
  BY DEF Ask, LookupStep, LoadModel, FillModel, LoadAlias, LoadRow, FillName, FillId, sharedVars
<1>2. r \notin Writers /\ r \in Clients /\ r \notin Runs
  BY ClientsAssumption DEF Writers
<1>3. \E from, to : Goto(r, from, to) /\ from # "done"
  BY DEF Ask, LookupStep, LoadModel, FillModel, LoadAlias, LoadRow, FillName, FillId,
     ModelLookedUp, AliasLookedUp, NextTrainer
<1>4. at' = at \/ \E i : at' = [at EXCEPT ![r] = i]
  BY <1>2 DEF Ask, LookupStep, LoadModel, FillModel, LoadAlias, LoadRow, FillName, FillId,
     ModelLookedUp
<1>5. Apart(r)
  BY <1>1, <1>2, <1>3, <1>4, WritersAreClients DEF TypeOK, Apart, Goto
<1>6. Meetings'
  BY <1>1, <1>2, <1>3, WritersAreClients DEF Orderly, Meetings, Open, Goto, TypeOK
<1>7. QED
  BY <1>1, <1>2, <1>5, <1>6, StillStep
-----------------------------------------------------------------------------
(* Steps of a training run *)

LEMMA WriterStart ==
    ASSUME TypeOK, Orderly, NEW c \in Writers,
           Start(c) \/ (c \in Rollbacks /\ RollbackBegin(c))
    PROVE  Orderly'
<1>1. c \in Clients /\ pc[c] = "idle" /\ c \notin Open /\ Books(c)
  BY WritersAreClients DEF Start, RollbackBegin, Goto, Open, Orderly
<1>2. UNCHANGED <<dbVars, file, view, draft, mine, at>>
  BY DEF Start, RollbackBegin
<1>3. \/ pc' = [pc EXCEPT ![c] = "done"] /\ met' = met /\ pick' = pick
      \/ /\ \E to \in {"train", "commit", "touch"} : pc' = [pc EXCEPT ![c] = to]
         /\ Meet(c) /\ (pick' = pick \/ (c \in Rollbacks /\ \E m : pick' = [pick EXCEPT ![c] = m]))
  <2>1. CASE Start(c)
    <3>1. Meet(c) /\ pick' = pick
      BY <2>1 DEF Start
    <3>2. \E to \in {"train", "commit", "touch"} : pc' = [pc EXCEPT ![c] = to]
      BY <2>1 DEF Start, Goto
    <3>3. QED
      BY <3>1, <3>2
  <2>2. CASE c \in Rollbacks /\ RollbackBegin(c)
    <3>1. c \in Rollbacks
      BY <2>2
    <3>2. CASE Goto(c, "idle", "touch") /\ Meet(c) /\ \E m : pick' = [pick EXCEPT ![c] = m]
      BY <3>1, <3>2 DEF Goto
    <3>3. CASE Goto(c, "idle", "done") /\ UNCHANGED <<pick, met>>
      BY <3>3 DEF Goto
    <3>4. QED
      BY <2>2, <3>2, <3>3 DEF RollbackBegin
  <2>3. QED
    BY <2>1, <2>2
<1>4. Meetings' /\ Apart(c)
  <2>1. CASE pc' = [pc EXCEPT ![c] = "done"] /\ met' = met /\ pick' = pick
    <3>1. Open' \subseteq Open
      BY <1>1, <2>1, WritersAreClients DEF Open, TypeOK
    <3>2. QED
      BY <1>1, <1>2, <2>1, <3>1, MeetingsLast, WritersAreClients DEF Orderly, Apart, TypeOK
  <2>2. ASSUME NEW to \in {"train", "commit", "touch"}, pc' = [pc EXCEPT ![c] = to], Meet(c),
               pick' = pick \/ \E m : pick' = [pick EXCEPT ![c] = m]
        PROVE  Meetings' /\ Apart(c)
    <3>1. Open' \subseteq Open \cup {c}
      BY <1>1, <2>2, WritersAreClients DEF Open, TypeOK
    <3>2. Meetings' /\ \A w \in Writers : met[w] \subseteq met'[w]
      BY <1>1, <2>2, <3>1, MeetingsLast DEF Orderly
    <3>3. QED
      BY <1>1, <1>2, <2>2, <3>2, WritersAreClients DEF Apart, TypeOK
  <2>3. QED
    BY <1>3, <2>1, <2>2
<1>5. mine'[c] = NoRows /\ view'[c] = NoRows /\ pc'[c] \notin {"save", "register"}
      /\ (pc'[c] \in Closed \/ c \in Runs => pick'[c] = NoModel)
  BY <1>1, <1>2, <1>3, ClientsAssumption DEF Books, Clean, Closed, TypeOK
<1>6. Books(c)'
  BY <1>5 DEF Books, Written, Drafted, Seen, Better, Clean, NoRows
<1>7. QED
  BY <1>1, <1>2, <1>4, <1>6, StillStep

(* What the run reads is what is committed at that time *)
LEMMA TrainStep ==
    ASSUME TypeOK, Orderly, NEW c \in Runs, Train(c)
    PROVE  Orderly'
<1>1. c \in Writers /\ c \in Clients /\ Current(c) \in Models /\ pc[c] = "train"
  BY WritersAreClients, CurrentIsModel DEF Train, NextTrainer, Goto
<1>2. Books(c) /\ pick[c] = NoModel /\ Meetings
  BY <1>1 DEF Orderly, Books, Better, Picked, Chosen
<1>3. UNCHANGED <<dbVars, mine, pick, file, met>>
  BY DEF Train, sharedVars
<1>4. Apart(c) /\ pc'[c] \in {"train", "save", "select"} /\ Open' \subseteq Open
  BY <1>1, <1>3, WritersAreClients DEF Train, NextTrainer, Goto, Apart, TypeOK, Open
<1>5. Written(c)' /\ Better(c)' /\ Clean(c)' /\ (Overtaken(c) => Overtaken(c)')
  BY <1>1, <1>2, <1>3, <1>4 DEF Books, Written, Better, Clean, Closed, Kept, Overtaken, Apart, TypeOK
<1>6. ASSUME NEW acc \in Accuracies,
             draft' = [draft EXCEPT ![c] = [version |-> NewVersion(c), acc |-> acc, author |-> c]],
             Goto(c, "train", "save"),
             view' = [view EXCEPT ![c][Current(c)] = row[Current(c)]],
             UNCHANGED at
      PROVE  Drafted(c)' /\ Seen(c)'
  <2>1. pc'[c] = "save" /\ Current(c)' = Current(c)
    BY <1>1, <1>6 DEF Goto, TypeOK, Current
  <2>2. draft'[c].version = NewVersion(c) /\ draft'[c].author = c
    BY <1>1, <1>6 DEF TypeOK
  <2>3. \A m \in Models : view'[c][m] = IF m = Current(c) THEN row[m] ELSE view[c][m]
    BY <1>1, <1>6 DEF TypeOK
  <2>4. Drafted(c)'
    BY <1>1, <1>3, <2>1, <2>2, <2>3 DEF Drafted, ReadOf, NewVersion, Ahead, dbVars
  <2>5. QED
    BY <1>2, <1>3, <1>5, <2>3, <2>4 DEF Books, Seen, dbVars
<1>7. ASSUME NextTrainer(c, "train"), UNCHANGED <<view, draft>> PROVE Drafted(c)' /\ Seen(c)'
  <2>1. pc'[c] \in {"train", "select"}
    BY <1>1, <1>7, NextTrainerType DEF TypeOK
  <2>2. QED
    BY <1>2, <1>3, <1>5, <1>7, <2>1 DEF Books, Drafted, Seen, dbVars
<1>8. QED
  BY <1>1, <1>2, <1>3, <1>4, <1>5, <1>6, <1>7, MeetingsLast, StillStep DEF Train, Books

(* A new file takes a path from a file of another run only if they met *)
LEMMA SaveKeeps ==
    ASSUME TypeOK, NEW c \in Runs, Save(c),
           NEW k \in Models, NEW r, Kept(k, r),
           SamePath(Artifact(k, r), Artifact(Current(c), draft[c])) =>
               draft[c].author \in {r.author} \cup met[r.author]
    PROVE  Kept(k, r)'
<1> DEFINE new == Artifact(Current(c), draft[c])
<1>1. PICK f \in file : SamePath(f, Artifact(k, r)) /\ f.author \in {r.author} \cup met[r.author]
  BY DEF Kept
<1>2. file' = {g \in file : ~SamePath(g, new)} \cup {new} /\ met' = met
  BY DEF Save
<1>3. CASE SamePath(Artifact(k, r), new)
  <2>1. new \in file' /\ new.author = draft[c].author /\ SamePath(new, Artifact(k, r))
    BY <1>2, <1>3 DEF Artifact, SamePath
  <2>2. QED
    BY <1>2, <1>3, <2>1 DEF Kept, Artifact, SamePath
<1>4. CASE ~SamePath(Artifact(k, r), new)
  <2>1. f \in file'
    BY <1>1, <1>2, <1>4 DEF SamePath
  <2>2. QED
    BY <1>1, <1>2, <2>1 DEF Kept, Artifact, SamePath
<1>5. QED
  BY <1>3, <1>4

(* The new file takes the path of a committed artifact only if the run has *)
(* met its author: otherwise it has read the row and goes one version up.  *)
LEMMA SaveStep ==
    ASSUME TypeOK, Orderly, NEW c \in Runs, Save(c)
    PROVE  Orderly'
<1> DEFINE m == Current(c)
<1>1. c \in Writers /\ c \in Clients /\ m \in Models /\ pc[c] = "save" /\ c \in Open
  BY WritersAreClients, CurrentIsModel DEF Save, NextTrainer, Goto, Open
<1>2. Books(c) /\ pick[c] = NoModel /\ Meetings
  BY <1>1 DEF Orderly, Books, Better, Picked, Chosen
<1>3. /\ UNCHANGED <<dbVars, view, draft, mine, pick, met>>
      /\ file' = {f \in file : ~SamePath(f, Artifact(m, draft[c]))} \cup {Artifact(m, draft[c])}
  BY DEF Save
<1>4. Apart(c) /\ pc'[c] \in {"register", "train", "select"} /\ Open' \subseteq Open
  BY <1>1, <1>3, WritersAreClients DEF Save, NextTrainer, Goto, Apart, TypeOK, Open
<1>5. draft[c].author = c /\ draft[c].version = Ahead(view[c][m]) /\ ReadOf(c, m)
  BY <1>1, <1>2 DEF Books, Drafted
<1>6. ASSUME NEW k \in Models, row[k] # NoRow PROVE Kept(k, row[k])'
  <2>1. Kept(k, row[k]) /\ row[k].version \in Nat \ {0}
    BY <1>6 DEF Orderly, Rowed, TypeOK, Rows
  <2>2. ASSUME SamePath(Artifact(k, row[k]), Artifact(m, draft[c])) PROVE c \in met[row[k].author]
    <3>1. k = m /\ row[m].version = Ahead(view[c][m])
      BY <1>5, <2>2 DEF SamePath, Artifact
    <3>2. view[c][m] # row[m]
      BY <1>6, <2>1, <3>1 DEF Ahead
    <3>3. row[m].author \in met[c]
      BY <1>5, <3>2 DEF ReadOf
    <3>4. QED
      BY <1>1, <1>2, <2>1, <3>1, <3>3 DEF Meetings, Kept
  <2>3. QED
    BY <1>3, <1>5, <2>1, <2>2, SaveKeeps DEF dbVars, Kept
<1>7. ASSUME NEW d \in Writers, d \in Open, NEW k \in Models, NEW r, Kept(k, r), r.author = d
      PROVE  Kept(k, r)'
  <2>1. c \in {d} \cup met[d]
    BY <1>1, <1>2, <1>7 DEF Meetings
  <2>2. QED
    BY <1>5, <1>7, <2>1, SaveKeeps
<1>8. ASSUME NEW d \in Writers PROVE Written(d)'
  <2>1. ASSUME NEW k \in Models, mine[d][k] # NoRow
        PROVE  mine[d][k].author = d /\ Kept(k, mine[d][k])'
    <3>1. mine[d][k].author = d /\ Kept(k, mine[d][k]) /\ Clean(d)
      BY <2>1 DEF Orderly, Books, Written
    <3>2. d \in Open
      BY <2>1, <3>1 DEF Clean, Closed, NoRows, Open
    <3>3. QED
      BY <1>3, <1>7, <3>1, <3>2 DEF Kept
  <2>2. QED
    BY <1>3, <2>1 DEF Written, Kept
<1>9. ASSUME NEW d \in Writers \ {c} PROVE Drafted(d)'
  <2>1. Drafted(d) /\ Current(d)' = Current(d) /\ Current(d) \in Models
    BY <1>4, CurrentIsModel, WritersAreClients DEF Orderly, Books, Apart, Current
  <2>2. ASSUME pc[d] = "register" PROVE Kept(Current(d), draft[d])'
    <3>1. d \in Open /\ Kept(Current(d), draft[d]) /\ draft[d].author = d
      BY <2>1, <2>2 DEF Drafted, Open
    <3>2. QED
      BY <1>3, <1>7, <2>1, <3>1 DEF Kept
  <2>3. QED
    BY <1>3, <1>4, <2>1, <2>2 DEF Drafted, ReadOf, Apart, Kept, dbVars
<1>10. Drafted(c)'
  <2>1. CASE pc'[c] = "register"
    <3>1. Current(c)' = Current(c)
      BY <1>1, <2>1 DEF Save, NextTrainer, Goto, TypeOK, Current
    <3>2. Artifact(m, draft[c]) \in file'
      BY <1>3
    <3>3. Kept(m, draft[c])'
      BY <1>1, <1>3, <1>5, <3>1, <3>2 DEF Kept, SamePath, Artifact
    <3>4. QED
      BY <1>3, <1>5, <2>1, <3>1, <3>3 DEF Drafted, ReadOf, dbVars, Kept
  <2>2. CASE pc'[c] \in {"train", "select"}
    BY <2>2 DEF Drafted
  <2>3. QED
    BY <1>4, <2>1, <2>2
<1>11. ASSUME NEW d \in Writers PROVE Seen(d)' /\ Better(d)' /\ Clean(d)'
  <2>1. Books(d) /\ (Overtaken(d) => Overtaken(d)')
    BY <1>1, <1>3, <1>4 DEF Orderly, Overtaken, Apart, TypeOK
  <2>2. CASE d = c
    BY <1>2, <1>3, <1>4, <2>1, <2>2 DEF Books, Seen, Better, Clean, Closed, dbVars
  <2>3. CASE d # c
    BY <1>3, <1>4, <2>1, <2>3 DEF Books, Seen, Better, Clean, After, Apart, dbVars
  <2>4. QED
    BY <2>2, <2>3
<1>12. Meetings'
  BY <1>1, <1>2, <1>3, <1>4, MeetingsLast
<1>13. Rowed'
  BY <1>3, <1>6 DEF Rowed, dbVars, Kept
<1>14. QED
  BY <1>8, <1>9, <1>10, <1>11, <1>12, <1>13 DEF Orderly, Books

LEMMA RegisterStep ==
    ASSUME TypeOK, Orderly, NEW c \in Runs, Register(c)
    PROVE  Orderly'
<1> DEFINE m == Current(c)
<1>1. c \in Writers /\ c \in Clients /\ m \in Models /\ pc[c] = "register"
  BY WritersAreClients, CurrentIsModel DEF Register, Goto
<1>2. Books(c) /\ pick[c] = NoModel /\ Meetings
  BY <1>1 DEF Orderly, Books, Better, Picked, Chosen
<1>3. /\ UNCHANGED <<dbVars, at, view, pick, file, met>>
      /\ mine' = [mine EXCEPT ![c][m] = draft[c]]
      /\ draft' = [draft EXCEPT ![c] = NoRow]
      /\ pc' = [pc EXCEPT ![c] = "dropModel"]
  BY DEF Register, Goto
<1>4. Apart(c) /\ pc'[c] = "dropModel" /\ Open' \subseteq Open
  BY <1>1, <1>3, WritersAreClients DEF Apart, TypeOK, Open
<1>5. \A k \in Models : mine'[c][k] = IF k = m THEN draft[c] ELSE mine[c][k]
  BY <1>1, <1>3 DEF TypeOK
<1>6. Written(c)'
  BY <1>1, <1>2, <1>3, <1>5 DEF Books, Written, Drafted, Kept
<1>7. Drafted(c)' /\ Better(c)' /\ Clean(c)'
  BY <1>2, <1>3, <1>4 DEF Drafted, Better, Clean, Closed
<1>8. Overtaken(c) => Overtaken(c)'
  BY <1>1, <1>3 DEF Overtaken, TypeOK
<1>9. Seen(c)'
  BY <1>2, <1>3, <1>8 DEF Books, Seen, dbVars
<1>10. QED
  BY <1>1, <1>2, <1>3, <1>4, <1>6, <1>7, <1>9, MeetingsLast, StillStep DEF Books

(* If nobody overtook the run, its identity map is the committed table, and *)
(* the champion's accuracy as it sees it is the one its commit leaves.      *)
LEMMA SelectStep ==
    ASSUME TypeOK, Orderly, NEW c \in Runs, Select(c)
    PROVE  Orderly'
<1>1. c \in Writers /\ c \in Clients /\ pc[c] = "select"
  BY WritersAreClients DEF Select, Choose, Goto
<1>2. Books(c) /\ pick[c] = NoModel /\ Meetings
  BY <1>1 DEF Orderly, Books, Better, Picked, Chosen
<1>3. UNCHANGED <<dbVars, at, view, draft, mine, file, met>>
  BY DEF Select, sharedVars
<1>4. Apart(c) /\ pc'[c] \in Picked \ (Closed \cup {"save", "register"}) /\ Open' \subseteq Open
  BY <1>1, <1>3, WritersAreClients
  DEF Select, Choose, Goto, Apart, TypeOK, Picked, Chosen, Closed, Open
<1>5. pick' = pick \/ \E i \in Trained(c) : /\ pick' = [pick EXCEPT ![c] = Trainers[i]]
                                            /\ champion # NoModel => Beats(c, i)
  BY DEF Select, Choose
<1>6. Overtaken(c) => Overtaken(c)'
  BY <1>1, <1>3, <1>4 DEF Overtaken, Apart, TypeOK
<1>7. Better(c)'
  <2>1. CASE pick' = pick
    BY <1>2, <2>1 DEF Better
  <2>2. ASSUME NEW i \in Trained(c), pick' = [pick EXCEPT ![c] = Trainers[i]],
               champion # NoModel => Beats(c, i)
        PROVE  Better(c)'
    <3>1. pick'[c] = Trainers[i] /\ mine[c][Trainers[i]] # NoRow
      BY <1>1, <2>2 DEF TypeOK, Trained
    <3>2. champion # NoModel => Overtaken(c) \/ SessionRow(c, champion) = After(c, champion)
      BY <1>2 DEF Books, Seen, SessionRow, After, TypeOK
    <3>3. champion # NoModel => Overtaken(c) \/ mine[c][Trainers[i]].acc > After(c, champion).acc
      BY <2>2, <3>2 DEF Beats, Acc
    <3>4. QED
      BY <1>3, <1>4, <1>6, <3>1, <3>3 DEF Better, After, dbVars
  <2>3. QED
    BY <1>5, <2>1, <2>2
<1>8. Written(c)' /\ Drafted(c)' /\ Seen(c)' /\ Clean(c)'
  BY <1>2, <1>3, <1>4, <1>6 DEF Books, Written, Drafted, Seen, Clean, Kept, dbVars
<1>9. QED
  BY <1>1, <1>2, <1>3, <1>4, <1>7, <1>8, MeetingsLast, StillStep DEF Books

-----------------------------------------------------------------------------
(* The end of a transaction *)

LEMMA Ended ==
    ASSUME TypeOK, Meetings, NEW c \in Writers, Release(c), pc[c] \notin Closed,
           pc' = [pc EXCEPT ![c] = "done"], UNCHANGED <<at, file, met>>
    PROVE  Apart(c) /\ Books(c)' /\ Meetings' /\ pc'[c] = "done" /\ c \in Open
<1>1. c \in Clients /\ pc'[c] = "done" /\ Apart(c) /\ c \in Open /\ Open' \subseteq Open
  BY WritersAreClients DEF Release, TypeOK, Apart, Closed, Open
<1>2. mine'[c] = NoRows /\ view'[c] = NoRows /\ pick'[c] = NoModel
  BY <1>1 DEF Release, TypeOK
<1>3. Books(c)'
  BY <1>1, <1>2 DEF Books, Clean, Closed, Written, Drafted, Seen, Better, NoRows
<1>4. QED
  BY <1>1, <1>3, MeetingsLast

LEMMA RollbackStep ==
    ASSUME TypeOK, Orderly, NEW c \in Writers, Rollback(c)
    PROVE  Orderly'
<1>1. pc[c] = "rollback" /\ pc' = [pc EXCEPT ![c] = "done"] /\ UNCHANGED <<dbVars, at, file, met>>
  BY DEF Rollback, Goto
<1>2. QED
  BY <1>1, Ended, StillStep, WritersAreClients DEF Rollback, Orderly, Closed

(* Whoever is open while c commits has met c, and c has ended *)
LEMMA CommitStep ==
    ASSUME TypeOK, Orderly, NEW c \in Writers, Commit(c)
    PROVE  Orderly'
<1>1. /\ pc[c] = "commit" /\ pc' = [pc EXCEPT ![c] = "done"] /\ UNCHANGED <<at, file, met>>
      /\ Books(c) /\ Meetings /\ c \in Clients
  BY WritersAreClients DEF Commit, Goto, Orderly
<1>2. Apart(c) /\ Books(c)' /\ Meetings' /\ pc'[c] = "done" /\ c \in Open
  BY <1>1, Ended DEF Commit, Closed
<1>3. \A m \in Models : row'[m] = After(c, m)
  BY DEF Commit, After
<1>4. Rowed'
  BY <1>1, <1>3 DEF Orderly, Rowed, Books, Written, Kept, After
<1>5. ASSUME NEW d \in Writers \ {c} PROVE Books(d)'
  <2>1. Books(d) /\ Current(d)' = Current(d)
    BY <1>2 DEF Orderly, Apart, Current
  <2>2. CASE d \notin Open
    <3>1. pc'[d] \in Closed /\ pc'[d] = pc[d]
      BY <1>2, <2>2 DEF Open, Closed, Apart
    <3>2. Clean(d)'
      BY <1>2, <2>1, <3>1 DEF Books, Clean, Apart
    <3>3. QED
      BY <3>1, <3>2 DEF Books, Clean, Closed, Written, Drafted, Seen, Better, NoRows
  <2>3. CASE d \in Open
    <3>1. c \in met'[d] /\ Overtaken(d)'
      BY <1>1, <1>2, <2>3 DEF Meetings, Overtaken
    <3>2. Written(d)' /\ Seen(d)' /\ Clean(d)' /\ Better(d)'
      BY <1>1, <1>2, <2>1, <3>1 DEF Books, Written, Seen, Clean, Better, Apart, Kept
    <3>3. ASSUME NEW m \in Models, ReadOf(d, m) PROVE ReadOf(d, m)'
      <4>1. row'[m] = row[m] \/ (row'[m] # NoRow /\ row'[m].author = c)
        BY <1>1, <1>3 DEF After, Books, Written
      <4>2. QED
        BY <1>1, <1>2, <3>1, <3>3, <4>1 DEF ReadOf, Apart
    <3>4. Drafted(d)'
      <4>1. Current(d) \in Models
        BY CurrentIsModel, WritersAreClients
      <4>2. QED
        BY <1>1, <1>2, <2>1, <3>3, <4>1 DEF Books, Drafted, Apart, Kept, ReadOf
    <3>5. QED
      BY <3>2, <3>4 DEF Books
  <2>4. QED
    BY <2>2, <2>3
<1>6. QED
  BY <1>2, <1>4, <1>5 DEF Orderly

LEMMA OrderlyNext ==
    ASSUME TypeOK, Orderly, [Next]_vars
    PROVE  Orderly'
<1>1. ASSUME NEW c \in Runs, Start(c) PROVE Orderly'
  BY <1>1, WriterStart DEF Writers
<1>2. ASSUME NEW c \in Runs, RunStep(c) \/ LookupStep(c) PROVE Orderly'
  <2>1. c \in Writers
    BY DEF Writers
  <2>2. QED
    BY <1>2, <2>1, QuietWriter, TrainStep, SaveStep, RegisterStep, SelectStep, RunLookup
    DEF RunStep
<1>3. ASSUME NEW c \in Writers, TxStep(c) \/ Failure(c) PROVE Orderly'
  BY <1>3, QuietWriter, CommitStep, RollbackStep DEF TxStep
<1>4. ASSUME NEW b \in Rollbacks, RollbackBegin(b) PROVE Orderly'
  BY <1>4, WriterStart DEF Writers
<1>5. ASSUME NEW b \in Rollbacks, RollbackTouch(b) PROVE Orderly'
  BY <1>5, QuietWriter DEF Writers
<1>6. ASSUME NEW r \in Readers, Ask(r) \/ LookupStep(r) PROVE Orderly'
  BY <1>6, ReaderStep
<1>7. CASE Ttl \/ UNCHANGED vars
  <2>1. UNCHANGED <<dbVars, txVars, file, met>>
    BY <1>7 DEF Ttl, ExpireModel, ExpireAlias, vars, sharedVars
  <2>2. QED
    BY <2>1 DEF txVars, dbVars, Orderly, Meetings, Open, Rowed, Kept, Books, Written, Drafted,
       ReadOf, Current, Seen, Overtaken, Better, After, Clean
<1>8. QED
  BY <1>1, <1>2, <1>3, <1>4, <1>5, <1>6, <1>7, WritersAreClients DEF Next, Progress

LEMMA OrderlyInit == Init => Orderly
<1>1. SUFFICES ASSUME Init PROVE Orderly
  OBVIOUS
<1>2. \A c \in Writers : pc[c] = "idle" /\ mine[c] = NoRows /\ view[c] = NoRows /\ pick[c] = NoModel
  BY <1>1, WritersAreClients DEF Init
<1>3. \A c \in Writers : Books(c)
  BY <1>2 DEF Books, Clean, Closed, Written, Drafted, Seen, Better, NoRows
<1>4. Meetings /\ Rowed
  BY <1>1, <1>2 DEF Init, Meetings, Open, Rowed, NoRows
<1>5. QED
  BY <1>3, <1>4 DEF Orderly

(* Failed, rolled back, repeated and overlapping runs: the artifact that a *)
(* registered model names can be taken from it only by a run that was open *)
(* together with the run that registered it.                               *)
THEOREM ArtifactsStay == Spec => []ArtifactLostToOverlapOnly
<1>1. TypeOK /\ Orderly /\ [Next]_vars => Orderly'
  BY OrderlyNext
<1>2. Orderly => ArtifactLostToOverlapOnly
  BY DEF Orderly, Rowed, Kept, ArtifactLostToOverlapOnly
<1>3. QED
  BY <1>1, <1>2, OrderlyInit, RegistryTypeCorrect, PTL DEF Spec

LEMMA CommitImproves ==
    ASSUME TypeOK, Located, Orderly, NEW c \in Runs, [Next]_vars, RunCommits(c),
           champion' # champion, champion # NoModel, ~Overtaken(c)
    PROVE  row'[champion'].acc > row'[champion].acc
<1>1. c \in Writers /\ c \in Clients /\ pc[c] = "commit" /\ pc'[c] = "done"
  BY WritersAreClients DEF RunCommits
<1>2. PICK d \in Clients : Commit(d)
  BY DEF Next, Progress, vars, dbVars, Start, RollbackBegin, Ask, RunStep, LookupStep, TxStep,
     Train, Save, Register, RegisterConflict, RefreshDropModel, Select, Crown, CrownConflict,
     Enthrone, RefreshDropAlias, LoadModel, FillModel, LoadAlias, LoadRow, FillName, FillId,
     Promote, Failure, CommitFails, Abort, Rollback, RollbackTouch, Ttl, ExpireModel, ExpireAlias
<1>3. d = c
  BY <1>1, <1>2 DEF Commit, Goto, TypeOK
<1>4. champion' = pick[c] /\ crowned[c] /\ \A m \in Models : row'[m] = After(c, m)
  BY <1>2, <1>3 DEF Commit, After
<1>5. pick[c] \in Models /\ champion \in Models
  BY <1>1, <1>4 DEF TypeOK, Located, Holds
<1>6. mine[c][pick[c]] # NoRow /\ mine[c][pick[c]].acc > After(c, champion).acc
  BY <1>1, <1>5, RegistryAssumption DEF Orderly, Books, Better
<1>7. QED
  BY <1>4, <1>5, <1>6 DEF After

(* A run replaces the champion only by a model that beats it as the commit *)
(* leaves it, unless another transaction ended while the run was open.     *)
THEOREM PromotionsImprove == Spec => PromotionImproves
<1>1. TypeOK /\ Orderly /\ [Next]_vars => Orderly'
  BY OrderlyNext
<1>2. TypeOK /\ Located /\ Orderly /\ [Next]_vars =>
        [\A c \in Runs : RunCommits(c) /\ champion' # champion /\ champion # NoModel
            => row'[champion'].acc > row'[champion].acc \/ Overtaken(c)]_vars
  BY CommitImproves
<1>3. QED
  BY <1>1, <1>2, OrderlyInit, RegistryTypeCorrect, PTL DEF Spec, PromotionImproves
=============================================================================
