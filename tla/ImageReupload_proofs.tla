------------------------ MODULE ImageReupload_proofs ------------------------
(***************************************************************************)
(* Theorems about ImageReupload, for any slots, workload, images, clock    *)
(* and number of requests; and about IncidentChat, the chat of the same    *)
(* incident, for any people, sockets, messages and pages.                  *)
(***************************************************************************)
EXTENDS ImageReupload, IncidentChat, FiniteSetTheorems, WellFoundedInduction, TLAPS

USE DEF Columns

-----------------------------------------------------------------------------
(* Lemmas on the values the handlers are built from *)

LEMMA WrittenRow ==
    ASSUME NEW r \in Rows, NEW e \in Rows, NEW cols
    PROVE  /\ Written(r, e, cols) \in Rows
           /\ Written(r, e, cols).canClientUploadImages =
                 IF "canClientUploadImages" \in cols THEN e.canClientUploadImages
                 ELSE r.canClientUploadImages
  BY DEF Written, Rows

LEMMA ChangedColumns ==
    ASSUME NEW r \in Rows, NEW e
    PROVE  /\ Changed(e, r) \in SUBSET Columns
           /\ "canClientUploadImages" \in Changed(e, r)
              <=> e.canClientUploadImages # r.canClientUploadImages
  BY DEF Changed, Rows

LEMMA NotAllowedType == NotAllowed \in Rows
  BY DEF NotAllowed, Rows

LEMMA TaskType ==
    ASSUME NEW o \in Ops \cup {"none"}, NEW p \in {"idle", "upload", "store", "select", "write"},
           NEW e \in Rows
    PROVE  Task(o, p, e) \in Tasks
  BY DEF Task, Tasks

LEMMA IdleType == Idle \in Tasks
  BY TaskType, NotAllowedType DEF Idle

-----------------------------------------------------------------------------
(* Types, and files before records *)

\* What is known of a handler in flight: its type, and that the image it is
\* about to record has its file.
SoundTask(t, f) == t \in Tasks /\ (t.at = "store" => t.image \in f)

Inv ==
    /\ TypeOK
    /\ FileBeforeRecord
    /\ \A s \in Slots : SoundTask(task[s], files)

\* An idle slot that is taken by a sound handler.
LEMMA StartKeepsInv ==
    ASSUME Inv, NEW s \in Slots, NEW t, SoundTask(t, files), Start(s, t)
    PROVE  Inv'
  <1>1. /\ task' = [task EXCEPT ![s] = t]
        /\ UNCHANGED <<now, row, files, images, unused>>
    BY DEF Start, Become
  <1>2. TypeOK'
    BY <1>1 DEF Inv, TypeOK, SoundTask
  <1>3. \A u \in Slots : SoundTask(task[u], files)'
    BY <1>1 DEF Inv, TypeOK, SoundTask
  <1>4. QED
    BY <1>1, <1>2, <1>3 DEF Inv, FileBeforeRecord

\* The handlers that only mean to save an entity.
LEMMA SaverIsSound ==
    ASSUME NEW o \in Ops, NEW e \in Rows
    PROVE  SoundTask(Task(o, "select", e), files)
  <1>1. Task(o, "select", e) \in Tasks
    BY TaskType
  <1>2. Task(o, "select", e).at = "select"
    BY DEF Task
  <1>3. QED
    BY <1>1, <1>2 DEF SoundTask

\* An upload that is admitted.
LEMMA UploadIsSound ==
    ASSUME NEW batch \in SUBSET Images
    PROVE  SoundTask([Task("reupload", "upload", NotAllowed) EXCEPT !.todo = batch], files)
  BY NotAllowedType DEF Task, Tasks, Ops, SoundTask

\* No step of a handler breaks the invariant.
LEMMA StepKeepsInv ==
    ASSUME Inv, NEW s \in Slots, Step(s)
    PROVE  Inv'
<1> USE DEF Inv, TypeOK
<1>1. ASSUME NEW h \in HoursAllowed, RequestImageReupload(s, h)
      PROVE  Inv'
  <2>1. Allowed(now + h) \in Rows
    BY DEF Allowed, Rows, Hours
  <2>2. QED
    BY <1>1, <2>1, SaverIsSound, StartKeepsInv DEF RequestImageReupload, Ops
<1>2. CASE DisableClientImageUpload(s)
  BY <1>2, NotAllowedType, SaverIsSound, StartKeepsInv DEF DisableClientImageUpload, Ops
<1>3. CASE Touch(s)
  BY <1>3, SaverIsSound, StartKeepsInv DEF Touch, Ops
<1>4. ASSUME NEW batch \in SUBSET Fresh, ReuploadImages(s, batch)
      PROVE  Inv'
  <2>1. batch \in SUBSET Images
    BY DEF Fresh
  <2>2. QED
    BY <1>4, <2>1, UploadIsSound, StartKeepsInv DEF ReuploadImages
<1>5. ASSUME NEW i \in Images, UploadFile(s, i)
      PROVE  Inv'
  <2>1. [task[s] EXCEPT !.at = "store", !.image = i] \in Tasks
    BY DEF Tasks
  <2>2. [task[s] EXCEPT !.at = "store", !.image = i].image = i
    BY DEF Tasks
  <2>3. QED
    BY <1>5, <2>1, <2>2 DEF UploadFile, Become, SoundTask, FileBeforeRecord
<1>6. CASE StoreImage(s)
  <2> DEFINE rest == task[s].todo \ {task[s].image}
             t == [task[s] EXCEPT !.at = IF rest = {} THEN "select" ELSE "upload",
                                  !.todo = rest, !.image = NULL]
  <2>1. t \in Tasks /\ t.at # "store"
    BY DEF Tasks
  <2>2. task[s].image \in files
    BY <1>6 DEF StoreImage, SoundTask
  <2>3. /\ images' = images \cup {task[s].image}
        /\ task' = [task EXCEPT ![s] = t]
        /\ UNCHANGED <<now, row, files, unused>>
    BY <1>6 DEF StoreImage, Become
  <2> HIDE DEF t
  <2>4. QED
    BY <2>1, <2>2, <2>3 DEF SoundTask, FileBeforeRecord
<1>7. CASE HandlerFails(s)
  BY <1>7, IdleType DEF HandlerFails, Become, SoundTask, FileBeforeRecord, Idle, Task
<1>8. CASE SaveSelect(s)
  <2> DEFINE t == [task[s] EXCEPT !.at = "write", !.cols = Changed(task[s].entity, row)]
  <2>1. t \in Tasks /\ t.at # "store"
    BY ChangedColumns DEF Tasks
  <2>2. task' = [task EXCEPT ![s] = t] /\ UNCHANGED <<now, row, files, images, unused>>
    BY <1>8 DEF SaveSelect, Become
  <2> HIDE DEF t
  <2>3. QED
    BY <2>1, <2>2 DEF SoundTask, FileBeforeRecord
<1>9. CASE SaveWrite(s)
  <2>1. Idle \in Tasks /\ Idle.at # "store"
    BY IdleType DEF Idle, Task
  <2>2. row' \in Rows
    BY <1>9, WrittenRow DEF SaveWrite, Tasks
  <2>3. unused' \in Int
    BY <1>9 DEF SaveWrite
  <2>4. task' = [task EXCEPT ![s] = Idle] /\ UNCHANGED <<now, files, images>>
    BY <1>9 DEF SaveWrite, Become
  <2>5. QED
    BY <2>1, <2>2, <2>3, <2>4 DEF SoundTask, FileBeforeRecord
<1>10. QED
  BY <1>1, <1>2, <1>3, <1>4, <1>5, <1>6, <1>7, <1>8, <1>9 DEF Step

LEMMA InvHolds == Spec => []Inv
<1>1. Init => Inv
  <2> SUFFICES ASSUME Init PROVE Inv
    OBVIOUS
  <2>1. now \in 0..MaxHour /\ unused \in Int
    BY ReuploadAssumption DEF ReuploadAssumption, Init
  <2>2. Idle \in Tasks /\ Idle.at = "idle"
    BY IdleType DEF Idle, Task
  <2>3. task = [s \in Slots |-> Idle] /\ row \in Rows /\ files = {} /\ images = {}
    BY NotAllowedType DEF Init
  <2>4. QED
    BY <2>1, <2>2, <2>3 DEF Inv, TypeOK, FileBeforeRecord, SoundTask
<1>2. Inv /\ [Next]_vars => Inv'
  <2> SUFFICES ASSUME Inv, [Next]_vars PROVE Inv'
    OBVIOUS
  <2>1. ASSUME NEW s \in Slots, Step(s) PROVE Inv'
    BY <2>1, StepKeepsInv
  <2>2. CASE Crash
    BY <2>2, IdleType
       DEF Crash, Inv, TypeOK, FileBeforeRecord, SoundTask, Idle, Task
  <2>3. CASE NextHour
    BY <2>3, ReuploadAssumption
       DEF ReuploadAssumption, NextHour, Inv, TypeOK, FileBeforeRecord, SoundTask
  <2>4. CASE UNCHANGED vars
    BY <2>4 DEF vars, Inv, TypeOK, FileBeforeRecord, SoundTask
  <2>5. QED
    BY <2>1, <2>2, <2>3, <2>4 DEF Next
<1>3. QED
  BY <1>1, <1>2, PTL DEF Spec

\* Every variable keeps its type, however handlers overlap, fail and crash.
THEOREM ReuploadTypeCorrect == Spec => []TypeOK
  BY InvHolds, PTL DEF Inv

\* No image is recorded before its file is in the store: reuploadImages may
\* stop or be overtaken anywhere and leaves a file too many, never too few.
THEOREM FilesComeFirst == Spec => []FileBeforeRecord
  BY InvHolds, PTL DEF Inv

-----------------------------------------------------------------------------
(* One use of each permission *)

\* What is known of a handler in flight when n permissions are unused: an
\* upload has one to use up, and a second one was granted if the flag is up and
\* its save will not take it down; a handler that saves the flag as it found it
\* found it up while one was unused.
Paid(t, n, flag) ==
    /\ t.op = "none" => t.at = "idle"
    /\ t.op \in {"disable", "reupload"} => t.entity = NotAllowed
    /\ t.op = "reupload" => n >= 1
    /\ t.op = "touch" /\ t.entity.canClientUploadImages => n >= 1
    /\ t.op = "reupload" /\ t.at = "write" /\ "canClientUploadImages" \notin t.cols /\ flag
       => n >= 2

Counted ==
    /\ Inv
    /\ unused >= 0
    /\ row.canClientUploadImages => unused >= 1
    /\ \A s \in Slots :
         /\ Paid(task[s], unused, row.canClientUploadImages)
         /\ task[s].op \in Workload[s] \cup {"none"}

\* The handlers that must not overlap one another for SingleUse to hold.
Spenders == {"reupload", "touch"}

\* An idle slot that is taken by a handler with a permission to use, if it needs one.
LEMMA StartKeepsCounted ==
    ASSUME Counted, Inv', NEW s \in Slots, NEW t, Start(s, t),
           Paid(t, unused, row.canClientUploadImages)
    PROVE  Counted'
  <1>1. /\ task' = [task EXCEPT ![s] = t]
        /\ t.op \in Workload[s]
        /\ UNCHANGED <<row, unused>>
    BY DEF Start, Become
  <1>2. \A u \in Slots : /\ Paid(task'[u], unused, row.canClientUploadImages)
                         /\ task'[u].op \in Workload[u] \cup {"none"}
    BY <1>1 DEF Counted, Inv, TypeOK
  <1>3. QED
    BY <1>1, <1>2 DEF Counted

\* Steps that touch neither the row nor the count, nor bring a task to its write.
LEMMA QuietKeepsCounted ==
    ASSUME Counted, Inv', NEW s \in Slots, NEW t \in Tasks,
           task' = [task EXCEPT ![s] = t], UNCHANGED <<row, unused>>,
           \/ t = Idle
           \/ t.op = task[s].op /\ t.entity = task[s].entity /\ t.at # "write"
              /\ t.op # "none"
    PROVE  Counted'
  <1>1. Idle.op = "none" /\ Idle.at = "idle"
    BY DEF Idle, Task
  <1>2. Paid(t, unused, row.canClientUploadImages) /\ t.op \in Workload[s] \cup {"none"}
    BY <1>1 DEF Counted, Paid
  <1>3. \A u \in Slots : /\ Paid(task'[u], unused, row.canClientUploadImages)
                         /\ task'[u].op \in Workload[u] \cup {"none"}
    BY <1>2 DEF Counted, Inv, TypeOK
  <1>4. QED
    BY <1>3 DEF Counted

\* The end of a save.
LEMMA WriteKeepsCounted ==
    ASSUME OneAtATime(Spenders), Counted, Inv', NEW s \in Slots, SaveWrite(s)
    PROVE  Counted'
<1> DEFINE flag == row.canClientUploadImages
           t == task[s]
           up == t.entity.canClientUploadImages
           touched == "canClientUploadImages" \in t.cols
<1>1. /\ t \in Tasks /\ t.op \in Ops /\ t.at = "write" /\ t.op \in Workload[s]
      /\ t.entity \in Rows /\ row \in Rows /\ unused \in Int
      /\ Paid(t, unused, flag)
  BY DEF SaveWrite, Counted, Inv, TypeOK, Paid, Tasks
<1>2. row'.canClientUploadImages = IF touched THEN up ELSE flag
  BY <1>1, WrittenRow DEF SaveWrite
<1>3. task' = [task EXCEPT ![s] = Idle] /\ Idle.op = "none" /\ Idle.at = "idle"
  BY DEF SaveWrite, Become, Idle, Task
<1>4. \A u \in Slots \ {s} : task'[u] = task[u]
  BY <1>3 DEF Counted, Inv, TypeOK
<1>5. task'[s] = Idle
  BY <1>3 DEF Counted, Inv, TypeOK
<1>6. /\ t.op = "request" => unused' = unused + 1
      /\ t.op = "reupload" => unused' = unused - 1
      /\ t.op \in {"disable", "touch"} => unused' = unused
  BY DEF SaveWrite
<1>7. ~NotAllowed.canClientUploadImages
  BY DEF NotAllowed
<1>8. unused >= 0 /\ (flag => unused >= 1)
  BY DEF Counted
<1>9. /\ unused' \in Int /\ unused' >= 0
      /\ row'.canClientUploadImages => unused' >= 1
  <2>1. CASE t.op = "request"
    BY <2>1, <1>1, <1>6, <1>8
  <2>2. CASE t.op = "disable"
    BY <2>2, <1>1, <1>2, <1>6, <1>7, <1>8 DEF Paid
  <2>3. CASE t.op = "reupload"
    BY <2>3, <1>1, <1>2, <1>6, <1>7, <1>8 DEF Paid
  <2>4. CASE t.op = "touch"
    BY <2>4, <1>1, <1>2, <1>6, <1>8 DEF Paid
  <2>5. QED
    BY <1>1, <2>1, <2>2, <2>3, <2>4 DEF Ops
<1>10. ASSUME NEW u \in Slots \ {s}
       PROVE  Paid(task[u], unused', row'.canClientUploadImages)
  <2>1. Paid(task[u], unused, flag) /\ task[u].op \in Workload[u] \cup {"none"}
    BY DEF Counted
  <2>2. CASE t.op = "request"
    BY <2>1, <2>2, <1>1, <1>6 DEF Paid
  <2>3. CASE t.op = "disable"
    BY <2>1, <2>3, <1>1, <1>2, <1>6, <1>7 DEF Paid
  <2>4. CASE t.op \in Spenders
    <3>1. task[u].op \notin Spenders
      BY <2>1, <2>4, <1>1 DEF OneAtATime, Spenders
    <3>2. QED
      BY <2>1, <3>1 DEF Paid, Spenders
  <2>5. QED
    BY <1>1, <2>2, <2>3, <2>4 DEF Ops, Spenders
<1>11. \A u \in Slots : /\ Paid(task'[u], unused', row'.canClientUploadImages)
                        /\ task'[u].op \in Workload[u] \cup {"none"}
  <2>1. ASSUME NEW u \in Slots \ {s}
        PROVE  /\ Paid(task'[u], unused', row'.canClientUploadImages)
               /\ task'[u].op \in Workload[u] \cup {"none"}
    BY <1>4, <1>10 DEF Counted
  <2>2. Paid(task'[s], unused', row'.canClientUploadImages) /\ task'[s].op = "none"
    BY <1>3, <1>5 DEF Paid
  <2>3. QED
    BY <2>1, <2>2
<1>12. QED
  BY <1>9, <1>11 DEF Counted

LEMMA StepKeepsCounted ==
    ASSUME OneAtATime(Spenders), Counted, Inv', NEW s \in Slots, Step(s)
    PROVE  Counted'
<1> DEFINE flag == row.canClientUploadImages
<1>0. TypeOK /\ task[s] \in Tasks /\ unused \in Int
  BY DEF Counted, Inv, TypeOK
<1>1. ASSUME NEW h \in HoursAllowed, RequestImageReupload(s, h)
      PROVE  Counted'
  <2> DEFINE t == Task("request", "select", Allowed(now + h))
  <2>1. Paid(t, unused, flag)
    BY DEF Paid, Task
  <2>2. QED
    BY <1>1, <2>1, StartKeepsCounted DEF RequestImageReupload
<1>2. CASE DisableClientImageUpload(s)
  <2>1. Paid(Task("disable", "select", NotAllowed), unused, flag)
    BY DEF Paid, Task
  <2>2. QED
    BY <1>2, <2>1, StartKeepsCounted DEF DisableClientImageUpload
<1>3. CASE Touch(s)
  <2>1. Paid(Task("touch", "select", row), unused, flag)
    BY DEF Paid, Task, Counted
  <2>2. QED
    BY <1>3, <2>1, StartKeepsCounted DEF Touch
<1>4. ASSUME NEW batch \in SUBSET Fresh, ReuploadImages(s, batch)
      PROVE  Counted'
  <2> DEFINE t == [Task("reupload", "upload", NotAllowed) EXCEPT !.todo = batch]
  <2>1. unused >= 1
    BY <1>4 DEF ReuploadImages, MayUpload, Counted
  <2>2. t.op = "reupload" /\ t.at = "upload" /\ t.entity = NotAllowed
    BY DEF Task
  <2> HIDE DEF t
  <2>3. Paid(t, unused, flag)
    BY <2>1, <2>2 DEF Paid
  <2>4. Start(s, t)
    BY <1>4 DEF ReuploadImages, t
  <2>5. QED
    BY <2>3, <2>4, StartKeepsCounted
<1>5. ASSUME NEW i \in Images, UploadFile(s, i)
      PROVE  Counted'
  <2> DEFINE t == [task[s] EXCEPT !.at = "store", !.image = i]
  <2>1. /\ t \in Tasks
        /\ t.op = task[s].op /\ t.entity = task[s].entity /\ t.at = "store"
    BY <1>0 DEF Tasks
  <2>2. task' = [task EXCEPT ![s] = t] /\ UNCHANGED <<row, unused>> /\ task[s].at = "upload"
    BY <1>5 DEF UploadFile, Become
  <2> HIDE DEF t
  <2>3. task[s].op # "none"
    BY <2>2 DEF Counted, Paid
  <2>4. QED
    BY <2>1, <2>2, <2>3, QuietKeepsCounted
<1>6. CASE StoreImage(s)
  <2> DEFINE rest == task[s].todo \ {task[s].image}
             t == [task[s] EXCEPT !.at = IF rest = {} THEN "select" ELSE "upload",
                                  !.todo = rest, !.image = NULL]
  <2>1. /\ t \in Tasks
        /\ t.op = task[s].op /\ t.entity = task[s].entity /\ t.at # "write"
    BY <1>0 DEF Tasks
  <2>2. task' = [task EXCEPT ![s] = t] /\ UNCHANGED <<row, unused>> /\ task[s].at = "store"
    BY <1>6 DEF StoreImage, Become
  <2> HIDE DEF t
  <2>3. task[s].op # "none"
    BY <2>2 DEF Counted, Paid
  <2>4. QED
    BY <2>1, <2>2, <2>3, QuietKeepsCounted
<1>7. CASE HandlerFails(s)
  BY <1>7, IdleType, QuietKeepsCounted DEF HandlerFails, Become
<1>8. CASE SaveSelect(s)
  <2> DEFINE t == [task[s] EXCEPT !.at = "write", !.cols = Changed(task[s].entity, row)]
  <2>1. /\ t.op = task[s].op /\ t.entity = task[s].entity /\ t.at = "write"
        /\ t.cols = Changed(task[s].entity, row)
    BY <1>0 DEF Tasks
  <2>2. task' = [task EXCEPT ![s] = t] /\ UNCHANGED <<row, unused>> /\ task[s].at = "select"
    BY <1>8 DEF SaveSelect, Become
  <2> HIDE DEF t
  <2>3. Paid(task[s], unused, flag) /\ task[s].op # "none"
    BY <2>2 DEF Counted, Paid
  <2>4. t.op = "reupload" /\ "canClientUploadImages" \notin t.cols => ~flag
    BY <1>0, <2>1, <2>3, ChangedColumns DEF Paid, NotAllowed, TypeOK
  <2>5. Paid(t, unused, flag) /\ t.op \in Workload[s] \cup {"none"}
    BY <2>1, <2>3, <2>4 DEF Paid, Counted
  <2>6. \A u \in Slots : /\ Paid(task'[u], unused, flag)
                         /\ task'[u].op \in Workload[u] \cup {"none"}
    BY <1>0, <2>2, <2>5 DEF Counted, TypeOK
  <2>7. QED
    BY <2>2, <2>6 DEF Counted
<1>9. CASE SaveWrite(s)
  BY <1>9, WriteKeepsCounted
<1>10. QED
  BY <1>1, <1>2, <1>3, <1>4, <1>5, <1>6, <1>7, <1>8, <1>9 DEF Step

\* A permission is used once, whatever employees do at the same time, if
\* uploads overlap neither each other nor a handler that saves the row as it
\* found it.  The hypothesis is needed: the code has nothing that enforces it.
THEOREM OneUploadOneUse ==
    ASSUME OneAtATime(Spenders)
    PROVE  Spec => []SingleUse
<1>1. Init /\ Inv => Counted
  <2> SUFFICES ASSUME Init, Inv PROVE Counted
    OBVIOUS
  <2>1. task = [s \in Slots |-> Idle] /\ unused = 0 /\ ~row.canClientUploadImages
    BY DEF Init, NotAllowed
  <2>2. \A s \in Slots : task[s].op = "none" /\ task[s].at = "idle"
    BY <2>1 DEF Idle, Task
  <2>3. QED
    BY <2>1, <2>2 DEF Counted, Paid
<1>2. Counted /\ Inv' /\ [Next]_vars => Counted'
  <2> SUFFICES ASSUME Counted, Inv', [Next]_vars PROVE Counted'
    OBVIOUS
  <2>1. ASSUME NEW s \in Slots, Step(s) PROVE Counted'
    BY <2>1, StepKeepsCounted
  <2>2. CASE Crash
    <3>1. task' = [s \in Slots |-> Idle] /\ UNCHANGED <<row, unused>>
      BY <2>2 DEF Crash
    <3>2. \A s \in Slots : task'[s].op = "none" /\ task'[s].at = "idle"
      BY <3>1 DEF Idle, Task
    <3>3. QED
      BY <3>1, <3>2 DEF Counted, Paid
  <2>3. CASE NextHour
    BY <2>3 DEF NextHour, Counted
  <2>4. CASE UNCHANGED vars
    BY <2>4 DEF vars, Counted
  <2>5. QED
    BY <2>1, <2>2, <2>3, <2>4 DEF Next
<1>3. Counted => SingleUse
  BY DEF Counted, SingleUse
<1>4. QED
  BY <1>1, <1>2, <1>3, InvHolds, PTL DEF Spec

-----------------------------------------------------------------------------
(* The chat of the same incident *)

USE ChatAssumption

-----------------------------------------------------------------------------
(* Its lemmas on data *)

LEMMA LeastOfSet ==
    ASSUME NEW S \in SUBSET Nat, S # {}
    PROVE  \E x \in S : \A y \in S : x <= y
<1>1. PICK x \in S : \A y \in S : ~ (<<y, x>> \in OpToRel(<, Nat))
  BY NatLessThanWellFounded, WFMin
<1>2. ASSUME NEW y \in S, y < x PROVE FALSE
  <2>1. <<y, x>> \in OpToRel(<, Nat)
    BY <1>2 DEF OpToRel
  <2>2. QED
    BY <1>1, <2>1
<1>3. \A y \in S : x <= y
  BY <1>2
<1>4. QED
  BY <1>3

LEMMA MessagesAreNats ==
    /\ MaxMessages \in Nat /\ Messages = 1..MaxMessages
           /\ Messages \subseteq Nat /\ NULL \notin Messages
           /\ \A M \in SUBSET Messages : IsFiniteSet(M)
<1>1. MaxMessages \in Nat /\ Messages = 1..MaxMessages
  BY DEF ChatAssumption, Messages
<1>2. NULL \notin Nat
  BY ReuploadAssumption DEF ReuploadAssumption
<1>3. IsFiniteSet(1..MaxMessages)
  BY <1>1, FS_Interval
<1>4. \A M \in SUBSET Messages : IsFiniteSet(M)
  BY <1>1, <1>3, FS_Subset
<1>5. QED
  BY <1>1, <1>2, <1>4

\* A page has every message that is newer than one of it, of those it is of.
LEMMA PagesHaveNoHoles ==
    ASSUME NEW M \in SUBSET Messages,
           NEW x \in Newest(M), NEW m \in M, x <= m
    PROVE  m \in Newest(M)
<1>1. M \subseteq Nat /\ IsFiniteSet(M) /\ x \in M
  BY MessagesAreNats DEF Newest
<1>2. {n \in M : n > m} \subseteq {n \in M : n > x}
  <2>1. \A n \in M : n > m => n > x
    BY <1>1
  <2>2. QED
    BY <2>1
<1>3. IsFiniteSet({n \in M : n > x})
  BY <1>1, FS_Subset
<1>4. /\ Cardinality({n \in M : n > m}) \in Nat /\ Cardinality({n \in M : n > x}) \in Nat
      /\ Cardinality({n \in M : n > m}) <= Cardinality({n \in M : n > x})
  BY <1>2, <1>3, FS_Subset, FS_CardinalityType
<1>5. Cardinality({n \in M : n > x}) < Limit /\ Limit \in Nat
  BY DEF Newest, ChatAssumption
<1>6. QED
  BY <1>4, <1>5 DEF Newest

\* A page that is not empty has an oldest message.
LEMMA PagesHaveAnOldest ==
    ASSUME NEW page \in SUBSET Messages, page # {}
    PROVE  LET m == CHOOSE m \in page : \A n \in page : m <= n
           IN  m \in page /\ \A n \in page : m <= n
<1>1. \E m \in page : \A n \in page : m <= n
  BY MessagesAreNats, LeastOfSet
<1>2. QED
  BY <1>1

-----------------------------------------------------------------------------
(* Its inductive invariant *)

\* A sending that has a message.
About == {"commit", "emit", "announce"}

\* What a sending in flight knows of its message, and of who will hear it.
SoundChat(t) ==
    /\ t.at # "idle" => t.sender \in Users
    /\ t.at \in About => t.message \in 1..stamped
    /\ t.at = "commit" => message[t.message] = NULL
    /\ t.at \in {"emit", "announce"} =>
          message[t.message] # NULL /\ message[t.message].sender = t.sender
    /\ t.at = "announce" => \A u \in t.users : [message |-> t.message, user |-> u] \in heard

ChatTypes ==
    /\ message \in [Messages -> MessageRows \cup {NULL}]
    /\ stamped \in 0..MaxMessages
    /\ chatTask \in [ChatSlots -> ChatTasks]
    /\ emitted \subseteq Stored
    /\ heard \subseteq [message : Messages, user : Users]
    /\ ended \subseteq [message : Messages, employee : Employees \cup {NULL}]

SendingInv ==
    /\ ChatTypes
    /\ \A s \in ChatSlots : SoundChat(chatTask[s])
    /\ \A s, r \in ChatSlots :
          s # r /\ chatTask[s].at \in About /\ chatTask[r].at \in About =>
              chatTask[s].message # chatTask[r].message
    /\ \A m \in Messages : m > stamped => message[m] = NULL

\* What is stored stays, and whose it is; what was heard was heard.
ChatStays ==
    /\ \A m \in Stored : message'[m] # NULL /\ message'[m].sender = message[m].sender
    /\ stamped <= stamped'
    /\ heard \subseteq heard'

LEMMA ChatNulls ==
    NULL \notin Users /\ NULL \notin MessageRows /\ Employees \subseteq Users
BY DEF ChatAssumption, Employees

LEMMA IdleChatType ==
    /\ IdleChat \in ChatTasks
    /\ IdleChat.at = "idle" /\ IdleChat.by = "http"
    /\ \A t : t = IdleChat => SoundChat(t) /\ SoundChat(t)'
<1>1. /\ IdleChat \in ChatTasks
      /\ IdleChat.at = "idle" /\ IdleChat.by = "http"
  BY DEF IdleChat, ChatTasks
<1>2. QED
  BY <1>1 DEF SoundChat, About

LEMMA SendingMoves ==
    ASSUME SendingInv, ChatTypes', ChatStays,
           NEW s \in ChatSlots, NEW t, Becomes(s, t), SoundChat(t)',
           \A r \in ChatSlots \ {s} :
               /\ chatTask[r].at = "commit" => message'[chatTask[r].message] = NULL
               /\ chatTask[r].at \in About /\ t.at \in About => chatTask[r].message # t.message,
           \A m \in Messages : m > stamped' => message'[m] = NULL
    PROVE  SendingInv'
<1>1. chatTask'[s] = t /\ \A r \in ChatSlots \ {s} : chatTask'[r] = chatTask[r]
  BY DEF SendingInv, ChatTypes, Becomes
<1>2. stamped \in Nat /\ stamped' \in Nat
  BY DEF SendingInv, ChatTypes
<1>3. ASSUME NEW r \in ChatSlots
      PROVE  SoundChat(chatTask[r])'
  <2>1. CASE r = s
    BY <1>1, <2>1 DEF SoundChat
  <2>2. CASE r # s
    <3>1. PICK a : a = chatTask[r]
      OBVIOUS
    <3>2. SoundChat(a) /\ (a.at = "commit" => message'[a.message] = NULL)
          /\ chatTask'[r] = a
      BY <1>1, <2>2, <3>1 DEF SendingInv
    <3>3. a.at \in About => a.message \in Messages /\ a.message \in 1..stamped'
      BY <1>2, <3>2, MessagesAreNats DEF SoundChat, ChatStays, SendingInv, ChatTypes
    <3>4. a.at \in {"emit", "announce"} =>
              message'[a.message] # NULL /\ message'[a.message].sender = a.sender
      BY <3>2, <3>3 DEF SoundChat, About, ChatStays, Stored
    <3>5. SoundChat(a)'
      BY <3>2, <3>3, <3>4 DEF SoundChat, ChatStays
    <3>6. QED
      BY <3>2, <3>5 DEF SoundChat
  <2>3. QED
    BY <2>1, <2>2
<1>4. \A p, r \in ChatSlots :
          p # r /\ chatTask'[p].at \in About /\ chatTask'[r].at \in About =>
              chatTask'[p].message # chatTask'[r].message
  BY <1>1 DEF SendingInv
<1>5. QED
  BY <1>3, <1>4 DEF SendingInv

-----------------------------------------------------------------------------
(* Each step of a sending preserves it *)

LEMMA StoredAfter ==
    ASSUME ChatStays, NEW S, S \subseteq Stored,
           message' \in [Messages -> MessageRows \cup {NULL}]
    PROVE  S \subseteq Stored'
BY DEF ChatStays, Stored

\* A step of one sending that stores nothing.
LEMMA UnstoredMoves ==
    ASSUME SendingInv, NEW s \in ChatSlots, NEW t \in ChatTasks,
           Becomes(s, t), SoundChat(t)', UNCHANGED <<message, stamped>>,
           t.at \in About => chatTask[s].at \in About /\ chatTask[s].message = t.message,
           emitted' \subseteq Stored,
           ended' \subseteq [message : Messages, employee : Employees \cup {NULL}],
           heard \subseteq heard', heard' \subseteq [message : Messages, user : Users]
    PROVE  SendingInv'
<1>1. ChatStays
  <2>1. stamped \in Nat /\ message' = message /\ stamped' = stamped
    BY MessagesAreNats DEF SendingInv, ChatTypes
  <2>2. \A m \in Stored : message[m] # NULL
    BY DEF Stored
  <2>3. QED
    BY <2>1, <2>2 DEF ChatStays
<1>2. chatTask' \in [ChatSlots -> ChatTasks]
  BY DEF SendingInv, ChatTypes, Becomes
<1>3. ChatTypes'
  BY <1>2 DEF SendingInv, ChatTypes, Stored
<1>4. \A r \in ChatSlots \ {s} :
          /\ chatTask[r].at = "commit" => message'[chatTask[r].message] = NULL
          /\ chatTask[r].at \in About /\ t.at \in About => chatTask[r].message # t.message
  BY DEF SendingInv, SoundChat
<1>5. \A m \in Messages : m > stamped' => message'[m] = NULL
  BY DEF SendingInv
<1>6. QED
  BY <1>1, <1>3, <1>4, <1>5, SendingMoves

LEMMA BegunSendings ==
    ASSUME SendingInv, incident \in IncidentStates, NEW s \in ChatSlots,
           \/ \E u \in Users : SendMessage(s, u)
           \/ \E k : conn[k].userId \in Users /\ HandleSendMessage(s, k)
    PROVE  SendingInv'
<1>1. PICK t \in ChatTasks : t.at = "insert" /\ t.sender \in Users /\ Becomes(s, t)
  <2>1. ASSUME NEW u \in Users, SendMessage(s, u)
        PROVE  \E t \in ChatTasks : t.at = "insert" /\ t.sender \in Users /\ Becomes(s, t)
    <3>1. incident.assigned \in Employees \cup {NULL}
      BY DEF ChatAssumption, Incidents
    <3>2. PICK e \in Employees \cup {NULL} :
             e = IF u \in Clients THEN incident.assigned ELSE NULL
      BY <3>1
    <3>3. PICK t : t = [IdleChat EXCEPT !.at = "insert", !.sender = u, !.employee = e]
      OBVIOUS
    <3>4. t \in ChatTasks /\ t.at = "insert" /\ t.sender = u
      BY <3>3 DEF IdleChat, ChatTasks
    <3>5. Becomes(s, t)
      BY <2>1, <3>2, <3>3 DEF SendMessage
    <3>6. QED
      BY <3>4, <3>5
  <2>2. ASSUME NEW k, conn[k].userId \in Users, HandleSendMessage(s, k)
        PROVE  \E t \in ChatTasks : t.at = "insert" /\ t.sender \in Users /\ Becomes(s, t)
    <3>1. PICK t : t = [IdleChat EXCEPT !.at = "insert", !.by = "gateway",
                                         !.sender = conn[k].userId]
      OBVIOUS
    <3>2. t \in ChatTasks /\ t.at = "insert" /\ t.sender = conn[k].userId
      BY <2>2, <3>1 DEF IdleChat, ChatTasks
    <3>3. Becomes(s, t)
      BY <2>2, <3>1 DEF HandleSendMessage
    <3>4. QED
      BY <2>2, <3>2, <3>3
  <2>3. QED
    BY <2>1, <2>2
<1>2. SoundChat(t)' /\ t.at \notin About
  BY <1>1 DEF SoundChat, About
<1>3. UNCHANGED <<message, stamped, emitted, heard, ended>>
  BY DEF SendMessage, HandleSendMessage
<1>4. QED
  BY <1>1, <1>2, <1>3, UnstoredMoves DEF SendingInv, ChatTypes

\* The stamp is new: no other sending and no row has it.
LEMMA InsertKeepsSendings ==
    ASSUME SendingInv, NEW s \in ChatSlots, Insert(s)
    PROVE  SendingInv'
<1>1. PICK t : t = [chatTask[s] EXCEPT !.at = "commit", !.message = stamped']
  OBVIOUS
<1>2. /\ stamped < MaxMessages /\ stamped' = stamped + 1
      /\ chatTask[s].at = "insert" /\ Becomes(s, t)
      /\ UNCHANGED <<message, emitted, heard, ended>>
  BY <1>1 DEF Insert
<1>3. stamped \in Nat /\ stamped' \in 0..MaxMessages /\ stamped' \in Messages
      /\ message[stamped'] = NULL
  BY <1>2, MessagesAreNats DEF SendingInv, ChatTypes
<1>4. chatTask[s] \in ChatTasks /\ SoundChat(chatTask[s])
  BY DEF SendingInv, ChatTypes
<1>5. /\ t \in ChatTasks /\ t.at = "commit" /\ t.message = stamped'
      /\ t.sender = chatTask[s].sender /\ t.by = chatTask[s].by
      /\ t.employee = chatTask[s].employee
  BY <1>1, <1>3, <1>4 DEF ChatTasks
<1>6. SoundChat(t)'
  <2>1. t.message \in 1..stamped'
    BY <1>2, <1>3, <1>5
  <2>2. t.sender \in Users /\ message'[t.message] = NULL
    BY <1>2, <1>3, <1>4, <1>5 DEF SoundChat
  <2>3. QED
    BY <1>5, <2>1, <2>2 DEF SoundChat, About
<1>7. ChatStays
  <2>1. \A m \in Stored : message[m] # NULL
    BY DEF Stored
  <2>2. QED
    BY <1>2, <1>3, <2>1 DEF ChatStays
<1>8. ChatTypes'
  <2>1. chatTask' \in [ChatSlots -> ChatTasks]
    BY <1>2, <1>5 DEF SendingInv, ChatTypes, Becomes
  <2>2. QED
    BY <1>2, <1>3, <2>1 DEF SendingInv, ChatTypes, Stored
<1>9. \A r \in ChatSlots \ {s} :
          /\ chatTask[r].at = "commit" => message'[chatTask[r].message] = NULL
          /\ chatTask[r].at \in About => chatTask[r].message # t.message
  <2> SUFFICES ASSUME NEW r \in ChatSlots \ {s}
               PROVE  /\ chatTask[r].at = "commit" => message'[chatTask[r].message] = NULL
                      /\ chatTask[r].at \in About => chatTask[r].message # t.message
    OBVIOUS
  <2>1. SoundChat(chatTask[r])
    BY DEF SendingInv
  <2>2. chatTask[r].at \in About => chatTask[r].message \in 1..stamped
    BY <2>1 DEF SoundChat
  <2>3. QED
    BY <1>2, <1>3, <1>5, <2>1, <2>2 DEF SoundChat
<1>10. \A m \in Messages : m > stamped' => message'[m] = NULL
  BY <1>2, <1>3, MessagesAreNats DEF SendingInv
<1>11. QED
  BY <1>2, <1>6, <1>7, <1>8, <1>9, <1>10, SendingMoves

LEMMA CommitKeepsSendings ==
    ASSUME SendingInv, NEW s \in ChatSlots, Commit(s)
    PROVE  SendingInv'
<1>1. PICK m : m = chatTask[s].message
  OBVIOUS
<1>2. PICK t : t = [chatTask[s] EXCEPT !.at = "emit"]
  OBVIOUS
<1>3. PICK put : put = [sender |-> chatTask[s].sender, isRead |-> FALSE]
  OBVIOUS
<1>4. /\ chatTask[s].at = "commit" /\ message' = [message EXCEPT ![m] = put]
      /\ Becomes(s, t) /\ UNCHANGED <<stamped, emitted, heard, ended>>
  BY <1>1, <1>2, <1>3 DEF Commit
<1>5. chatTask[s] \in ChatTasks /\ SoundChat(chatTask[s]) /\ stamped \in 0..MaxMessages
  BY DEF SendingInv, ChatTypes
<1>6. /\ m \in 1..stamped /\ m \in Messages /\ message[m] = NULL
      /\ chatTask[s].sender \in Users
  <2>1. m \in 1..stamped /\ message[m] = NULL /\ chatTask[s].sender \in Users
    BY <1>1, <1>4, <1>5 DEF SoundChat, About
  <2>2. MaxMessages \in Nat /\ Messages = 1..MaxMessages /\ stamped \in 0..MaxMessages
    BY <1>5, MessagesAreNats
  <2>3. m \in Messages
    BY <2>1, <2>2
  <2>4. QED
    BY <2>1, <2>3
<1>7. put \in MessageRows /\ put.sender = chatTask[s].sender /\ put # NULL
  <2>1. put \in MessageRows /\ put.sender = chatTask[s].sender
    BY <1>3, <1>6 DEF MessageRows
  <2>2. QED
    BY <2>1, ChatNulls
<1>8. message'[m] = put /\ \A n \in Messages \ {m} : message'[n] = message[n]
  BY <1>4, <1>6 DEF SendingInv, ChatTypes
<1>9. ChatStays
  BY <1>4, <1>5, <1>6, <1>8 DEF ChatStays, Stored
<1>10. /\ t \in ChatTasks /\ t.at = "emit" /\ t.message = m /\ t.sender = chatTask[s].sender
       /\ t.by = chatTask[s].by /\ t.employee = chatTask[s].employee
  BY <1>1, <1>2, <1>5 DEF ChatTasks
<1>11. SoundChat(t)'
  BY <1>4, <1>5, <1>6, <1>7, <1>8, <1>10 DEF SoundChat, About
<1>12. ChatTypes'
  <2>1. chatTask' \in [ChatSlots -> ChatTasks]
    BY <1>4, <1>10 DEF SendingInv, ChatTypes, Becomes
  <2>2. message' \in [Messages -> MessageRows \cup {NULL}]
    BY <1>4, <1>6, <1>7 DEF SendingInv, ChatTypes
  <2>3. emitted' \subseteq Stored'
    BY <1>4, <1>9, <2>2, StoredAfter DEF SendingInv, ChatTypes
  <2>4. QED
    BY <1>4, <2>1, <2>2, <2>3 DEF SendingInv, ChatTypes
<1>13. \A r \in ChatSlots \ {s} :
          /\ chatTask[r].at \in About => chatTask[r].message # m
          /\ chatTask[r].at = "commit" => message'[chatTask[r].message] = NULL
  <2> SUFFICES ASSUME NEW r \in ChatSlots \ {s}
               PROVE  /\ chatTask[r].at \in About => chatTask[r].message # m
                      /\ chatTask[r].at = "commit" => message'[chatTask[r].message] = NULL
    OBVIOUS
  <2>1. SoundChat(chatTask[r]) /\ (chatTask[r].at \in About => chatTask[r].message # m)
    BY <1>1, <1>4 DEF SendingInv, About
  <2>2. chatTask[r].at = "commit" => chatTask[r].message \in Messages
    BY <1>5, <2>1, MessagesAreNats DEF SoundChat, About
  <2>3. QED
    BY <1>8, <2>1, <2>2 DEF SoundChat, About
<1>14. \A n \in Messages : n > stamped' => message'[n] = NULL
  BY <1>4, <1>5, <1>6, <1>8, MessagesAreNats DEF SendingInv
<1>15. QED
  BY <1>4, <1>9, <1>10, <1>11, <1>12, <1>13, <1>14, SendingMoves

LEMMA EmitKeepsSendings ==
    ASSUME SendingInv, NEW s \in ChatSlots, Emit(s),
           \A k \in Sockets : conn[k].inRoom => conn[k].userId \in Users
    PROVE  SendingInv'
<1>1. PICK a : a = chatTask[s]
  OBVIOUS
<1>2. PICK users : users = {conn[k].userId : k \in {k \in Sockets : conn[k].inRoom}}
  OBVIOUS
<1>3. users \subseteq Users
  BY <1>2
<1>4. /\ a \in ChatTasks /\ a.at = "emit" /\ a.message \in Stored /\ a.sender \in Users
      /\ message[a.message].sender = a.sender
  <2>1. SoundChat(a) /\ a \in ChatTasks /\ a.at = "emit"
    BY <1>1 DEF SendingInv, ChatTypes, Emit
  <2>2. a.message \in 1..stamped /\ MaxMessages \in Nat /\ stamped \in 0..MaxMessages
    BY <2>1, MessagesAreNats DEF SoundChat, About, SendingInv, ChatTypes
  <2>3. a.message \in Messages
    BY <2>2, MessagesAreNats
  <2>4. QED
    BY <2>1, <2>3 DEF SoundChat, Stored
<1>5. /\ emitted' = emitted \cup {a.message}
      /\ heard' = heard \cup [message : {a.message}, user : users \cup Told(a.employee)]
      /\ UNCHANGED <<message, stamped>>
  BY <1>1, <1>2 DEF Emit
<1>6. heard' \subseteq [message : Messages, user : Users]
  <2>1. Told(a.employee) \subseteq Users
    BY <1>4, ChatNulls DEF Told, ChatTasks
  <2>2. QED
    BY <1>3, <1>4, <1>5, <2>1 DEF SendingInv, ChatTypes, Stored
<1>7. emitted' \subseteq Stored
  BY <1>4, <1>5 DEF SendingInv, ChatTypes
<1>8. CASE a.by = "gateway" /\ a.sender \in Clients
  <2>1. PICK t : t = [a EXCEPT !.at = "announce", !.users = users]
    OBVIOUS
  <2>2. Becomes(s, t) /\ ended' = ended
    BY <1>1, <1>2, <1>8, <2>1 DEF Emit
  <2>3. /\ t \in ChatTasks /\ t.at = "announce" /\ t.users = users /\ t.message = a.message
        /\ t.sender = a.sender
    BY <1>3, <1>4, <2>1 DEF ChatTasks
  <2>4. SoundChat(t)'
    <3>1. t.message \in 1..stamped'
      BY <1>1, <1>4, <1>5, <2>3 DEF SendingInv, SoundChat, About
    <3>2. message'[t.message] # NULL /\ message'[t.message].sender = t.sender
      BY <1>4, <1>5, <2>3 DEF Stored
    <3>3. \A u \in t.users : [message |-> t.message, user |-> u] \in heard'
      BY <1>5, <2>3
    <3>4. QED
      BY <1>4, <2>3, <3>1, <3>2, <3>3 DEF SoundChat, About
  <2>5. QED
    BY <1>1, <1>4, <1>5, <1>6, <1>7, <2>2, <2>3, <2>4, UnstoredMoves
       DEF About, SendingInv, ChatTypes
<1>9. CASE ~ (a.by = "gateway" /\ a.sender \in Clients)
  <2>1. PICK t : t = IdleChat
    OBVIOUS
  <2>2. Becomes(s, t) /\ Finish(a.message, a.employee)
    BY <1>1, <1>9, <2>1 DEF Emit
  <2>3. t \in ChatTasks /\ SoundChat(t)' /\ t.at \notin About
    BY <2>1, IdleChatType DEF About
  <2>4. ended' \subseteq [message : Messages, employee : Employees \cup {NULL}]
    BY <1>4, <2>2 DEF SendingInv, ChatTypes, Finish, Stored, ChatTasks
  <2>5. QED
    BY <1>5, <1>6, <1>7, <2>2, <2>3, <2>4, UnstoredMoves
<1>10. QED
  BY <1>8, <1>9

LEMMA AnnounceKeepsSendings ==
    ASSUME SendingInv, incident \in IncidentStates,
           NEW s \in ChatSlots, Announce(s)
    PROVE  SendingInv'
<1>1. PICK a : a = chatTask[s]
  OBVIOUS
<1>2. PICK e : e = incident.assigned
  OBVIOUS
<1>3. e \in Employees \cup {NULL} /\ Told(e) \subseteq Users
  BY <1>2, ChatNulls DEF ChatAssumption, Incidents, Told
<1>4. a.message \in Stored
  <2>1. SoundChat(a) /\ a.at = "announce"
    BY <1>1 DEF SendingInv, Announce
  <2>2. a.message \in 1..stamped /\ MaxMessages \in Nat /\ stamped \in 0..MaxMessages
    BY <2>1, MessagesAreNats DEF SoundChat, About, SendingInv, ChatTypes
  <2>3. a.message \in Messages
    BY <2>2, MessagesAreNats
  <2>4. QED
    BY <2>1, <2>3 DEF SoundChat, Stored
<1>5. /\ heard' = IF EmployeeInRoom(a, e) THEN heard
                  ELSE heard \cup [message : {a.message}, user : Told(e)]
      /\ Finish(a.message, e) /\ Becomes(s, IdleChat)
      /\ UNCHANGED <<message, stamped, emitted>>
  BY <1>1, <1>2 DEF Announce
<1>6. heard \subseteq heard' /\ heard' \subseteq [message : Messages, user : Users]
  BY <1>3, <1>4, <1>5 DEF SendingInv, ChatTypes, Stored
<1>7. PICK t : t = IdleChat
  OBVIOUS
<1>8. t \in ChatTasks /\ SoundChat(t)' /\ t.at \notin About
  BY <1>7, IdleChatType DEF About
<1>9. emitted' \subseteq Stored
      /\ ended' \subseteq [message : Messages, employee : Employees \cup {NULL}]
  BY <1>3, <1>4, <1>5 DEF SendingInv, ChatTypes, Finish, Stored
<1>10. QED
  BY <1>5, <1>6, <1>7, <1>8, <1>9, UnstoredMoves

LEMMA FailsKeepsSendings ==
    ASSUME SendingInv, NEW s \in ChatSlots, Fails(s)
    PROVE  SendingInv'
<1>1. PICK t : t = IdleChat
  OBVIOUS
<1>2. t \in ChatTasks /\ SoundChat(t)' /\ t.at \notin About
  BY <1>1, IdleChatType DEF About
<1>3. Becomes(s, t) /\ UNCHANGED <<message, stamped, emitted, heard, ended>>
  BY <1>1 DEF Fails
<1>4. QED
  BY <1>2, <1>3, UnstoredMoves DEF SendingInv, ChatTypes

\* Reading a message changes nothing else of it.
LEMMA MarkKeepsSendings ==
    ASSUME SendingInv, NEW u, MarkMultipleAsRead(u)
    PROVE  SendingInv' /\ ChatStays
<1>1. UNCHANGED <<stamped, chatTask, emitted, heard, ended>>
  BY DEF MarkMultipleAsRead
<1>2. \A m \in Messages :
          /\ m \in Stored /\ message[m] \in MessageRows =>
                message'[m] \in MessageRows /\ message'[m].sender = message[m].sender
          /\ m \notin Stored => message'[m] = message[m]
  BY DEF MarkMultipleAsRead, MessageRows
<1>3. \A m \in Messages :
          /\ message[m] = NULL => message'[m] = NULL
          /\ message[m] # NULL =>
                message'[m] # NULL /\ message'[m].sender = message[m].sender
  BY <1>2, ChatNulls DEF SendingInv, ChatTypes, Stored
<1>4. message' \in [Messages -> MessageRows \cup {NULL}]
  <2>1. message' = [m \in Messages |-> message'[m]]
    BY DEF MarkMultipleAsRead
  <2>2. \A m \in Messages : message'[m] \in MessageRows \cup {NULL}
    BY <1>2 DEF SendingInv, ChatTypes, Stored
  <2>3. QED
    BY <2>1, <2>2
<1>5. ChatStays
  BY <1>1, <1>3 DEF ChatStays, Stored, SendingInv, ChatTypes
<1>6. ChatTypes'
  BY <1>1, <1>3, <1>4 DEF SendingInv, ChatTypes, Stored
<1>7. ASSUME NEW r \in ChatSlots
      PROVE  SoundChat(chatTask[r])'
  <2>1. PICK a : a = chatTask[r]
    OBVIOUS
  <2>2. SoundChat(a) /\ chatTask'[r] = a /\ stamped \in 0..MaxMessages
    BY <1>1, <2>1 DEF SendingInv, ChatTypes
  <2>3. a.at \in About => a.message \in Messages
    <3>1. a.at \in About => a.message \in 1..stamped
      BY <2>2 DEF SoundChat
    <3>2. QED
      BY <2>2, <3>1, MessagesAreNats
  <2>4. SoundChat(a)'
    BY <1>1, <1>3, <2>2, <2>3 DEF SoundChat, About
  <2>5. QED
    BY <2>2, <2>4 DEF SoundChat
<1>8. QED
  BY <1>1, <1>3, <1>5, <1>6, <1>7 DEF SendingInv

-----------------------------------------------------------------------------
(* The sockets and the screens *)

\* Only a socket whose user is known joins, and a screen loads in the room.
ConnectedInv ==
    /\ conn \in [Sockets -> Connections]
    /\ view \in [Sockets -> Views]
    /\ \A k \in Sockets :
          /\ conn[k].joining \/ conn[k].inRoom => conn[k].userId \in Users
          /\ view[k].oldest # NULL => conn[k].inRoom

ChatInv ==
    /\ SendingInv
    /\ ConnectedInv
    /\ incident \in IncidentStates
    /\ requests \in 0..MaxRequests
    /\ NoMessageFallsBetween

\* A step of a socket that shows nothing new and emits nothing.
LEMMA SocketMoves ==
    ASSUME ConnectedInv, NoMessageFallsBetween,
           NEW k \in Sockets, NEW c \in Connections, ConnBecomes(k, c),
           c.joining \/ c.inRoom => c.userId \in Users,
           \/ view' = view /\ (conn[k].inRoom => c.inRoom)
           \/ view' = [view EXCEPT ![k] = NoView],
           UNCHANGED emitted
    PROVE  ConnectedInv' /\ NoMessageFallsBetween'
<1>1. NoView \in Views /\ NoView.oldest = NULL
  BY DEF NoView, Views
<1>2. \A j \in Sockets : view'[j] = view[j] \/ view'[j].oldest = NULL
  BY <1>1 DEF ConnectedInv
<1>3. conn'[k] = c /\ \A j \in Sockets \ {k} : conn'[j] = conn[j] /\ view'[j] = view[j]
  BY DEF ConnectedInv, ConnBecomes
<1>4. conn' \in [Sockets -> Connections] /\ view' \in [Sockets -> Views]
  BY <1>1 DEF ConnectedInv, ConnBecomes
<1>5. view'[k].oldest # NULL => c.inRoom
  BY <1>1 DEF ConnectedInv
<1>6. ConnectedInv'
  BY <1>3, <1>4, <1>5 DEF ConnectedInv
<1>7. NoMessageFallsBetween'
  BY <1>2 DEF NoMessageFallsBetween
<1>8. QED
  BY <1>6, <1>7

SocketSteps(k) ==
    \/ HandleConnection(k) \/ HandleJoinRoom(k) \/ HandleLeaveRoom(k)
    \/ HandleDisconnect(k) \/ Authenticated(k) \/ Joined(k)

LEMMA SocketStepsKeep ==
    ASSUME ConnectedInv, NoMessageFallsBetween,
           NEW k \in Sockets, SocketSteps(k)
    PROVE  ConnectedInv' /\ NoMessageFallsBetween'
<1>1. PICK a : a = conn[k]
  OBVIOUS
<1>2. /\ a \in Connections /\ (a.joining \/ a.inRoom => a.userId \in Users)
      /\ NoConnection \in Connections
      /\ ~ NoConnection.joining /\ ~ NoConnection.inRoom
  BY <1>1 DEF ConnectedInv, NoConnection, Connections
<1>3. UNCHANGED emitted
  BY DEF SocketSteps, HandleConnection, HandleJoinRoom, HandleLeaveRoom,
         HandleDisconnect, Authenticated, Joined, sendVars
<1>4. CASE HandleConnection(k)
  <2>1. PICK c : c = [NoConnection EXCEPT !.claimed = Owner[k]]
    OBVIOUS
  <2>2. c \in Connections /\ ~ c.joining /\ ~ c.inRoom
    BY <1>2, <2>1 DEF NoConnection, Connections, ChatAssumption
  <2>3. ConnBecomes(k, c) /\ view' = view /\ ~ conn[k].inRoom
    BY <1>2, <1>4, <2>1 DEF HandleConnection
  <2>4. QED
    BY <1>3, <2>2, <2>3, SocketMoves
<1>5. CASE HandleJoinRoom(k)
  <2>1. PICK c : c = [a EXCEPT !.joining = TRUE]
    OBVIOUS
  <2>2. ConnBecomes(k, c) /\ view' = view /\ a.userId # NULL
    BY <1>1, <1>5, <2>1 DEF HandleJoinRoom
  <2>3. c \in Connections /\ c.userId \in Users /\ c.inRoom = a.inRoom
    BY <1>2, <2>1, <2>2 DEF Connections
  <2>4. QED
    BY <1>1, <1>3, <2>2, <2>3, SocketMoves
<1>6. CASE HandleLeaveRoom(k)
  <2>1. PICK c : c = [a EXCEPT !.inRoom = FALSE]
    OBVIOUS
  <2>2. ConnBecomes(k, c) /\ view' = [view EXCEPT ![k] = NoView]
    BY <1>1, <1>6, <2>1 DEF HandleLeaveRoom
  <2>3. /\ c \in Connections /\ ~ c.inRoom /\ c.joining = a.joining
        /\ c.userId = a.userId
    BY <1>2, <2>1 DEF Connections
  <2>4. c.joining \/ c.inRoom => c.userId \in Users
    BY <1>2, <2>3
  <2>5. QED
    BY <1>3, <2>2, <2>3, <2>4, SocketMoves
<1>7. CASE HandleDisconnect(k)
  <2>1. PICK c : c = NoConnection
    OBVIOUS
  <2>2. ConnBecomes(k, c) /\ view' = [view EXCEPT ![k] = NoView]
    BY <1>7, <2>1 DEF HandleDisconnect
  <2>3. QED
    BY <1>2, <1>3, <2>1, <2>2, SocketMoves
<1>8. CASE Authenticated(k)
  <2>1. PICK c : c = [a EXCEPT !.claimed = NULL, !.userId = a.claimed]
    OBVIOUS
  <2>2. ConnBecomes(k, c) /\ view' = view /\ a.claimed # NULL
    BY <1>1, <1>8, <2>1 DEF Authenticated
  <2>3. c \in Connections /\ c.userId \in Users /\ c.inRoom = a.inRoom
    BY <1>2, <2>1, <2>2 DEF Connections
  <2>4. QED
    BY <1>1, <1>3, <2>2, <2>3, SocketMoves
<1>9. CASE Joined(k)
  <2>1. PICK c : c = [a EXCEPT !.joining = FALSE, !.inRoom = TRUE]
    OBVIOUS
  <2>2. ConnBecomes(k, c) /\ view' = view /\ a.joining
    BY <1>1, <1>9, <2>1 DEF Joined
  <2>3. c \in Connections /\ c.userId \in Users /\ c.inRoom
    BY <1>2, <2>1, <2>2 DEF Connections
  <2>4. QED
    BY <1>1, <1>3, <2>2, <2>3, SocketMoves
<1>10. QED
  BY <1>4, <1>5, <1>6, <1>7, <1>8, <1>9 DEF SocketSteps

\* What is emitted reaches every screen in the room, and only those have
\* loaded anything.
LEMMA EmitReachesTheRoom ==
    ASSUME SendingInv, ConnectedInv, NoMessageFallsBetween,
           NEW s \in ChatSlots, Emit(s)
    PROVE  ConnectedInv' /\ NoMessageFallsBetween'
<1>1. PICK m : m = chatTask[s].message
  OBVIOUS
<1>2. m \in Messages
  <2>1. SoundChat(chatTask[s]) /\ chatTask[s].at = "emit"
    BY DEF SendingInv, Emit
  <2>2. m \in 1..stamped /\ MaxMessages \in Nat /\ stamped \in 0..MaxMessages
    BY <1>1, <2>1, MessagesAreNats DEF SoundChat, About, SendingInv, ChatTypes
  <2>3. QED
    BY <2>2, MessagesAreNats
<1>3. /\ view' = [k \in Sockets |->
             IF conn[k].inRoom THEN [view[k] EXCEPT !.seen = @ \cup {m}] ELSE view[k]]
      /\ emitted' = emitted \cup {m} /\ conn' = conn
  BY <1>1 DEF Emit
<1>4. \A k \in Sockets :
          /\ view'[k] \in Views
          /\ view'[k].oldest = view[k].oldest /\ view'[k].cursors = view[k].cursors
          /\ view[k].seen \subseteq view'[k].seen
          /\ conn[k].inRoom => m \in view'[k].seen
  BY <1>2, <1>3 DEF ConnectedInv, Views
<1>5. view' \in [Sockets -> Views]
  BY <1>3, <1>4
<1>6. ConnectedInv'
  BY <1>3, <1>4, <1>5 DEF ConnectedInv
<1>7. NoMessageFallsBetween'
  BY <1>3, <1>4 DEF NoMessageFallsBetween, ConnectedInv
<1>8. QED
  BY <1>6, <1>7

\* A page has every message from its oldest to the millisecond of its cursor.
LEMMA PagesJoinUp ==
    ASSUME SendingInv, ConnectedInv, NoMessageFallsBetween,
           NEW k \in Sockets, FindAllByIncidencia(k)
    PROVE  ConnectedInv' /\ NoMessageFallsBetween'
<1>1. PICK old : old = view[k].oldest
  OBVIOUS
<1>2. PICK page : page = Page(old)
  OBVIOUS
<1>3. PICK M : M = IF old = NULL THEN Stored
                   ELSE {m \in Stored : Millisecond[m] < Millisecond[old]}
  OBVIOUS
<1>4. /\ page = Newest(M) /\ M \in SUBSET Messages /\ page \in SUBSET Messages
      /\ page # {}
  BY <1>1, <1>2, <1>3 DEF Page, Newest, Stored, FindAllByIncidencia
<1>5. PICK x \in page : /\ x = CHOOSE m \in page : \A n \in page : m <= n
                        /\ \A n \in page : x <= n
  BY <1>4, PagesHaveAnOldest
<1>6. PICK cut : cut = view[k].cursors \cup ({old} \ {NULL})
  OBVIOUS
<1>7. /\ view' = [view EXCEPT ![k] = [seen |-> @.seen \cup page, oldest |-> x,
                                      cursors |-> cut]]
      /\ conn[k].inRoom /\ conn' = conn /\ emitted' = emitted
  BY <1>1, <1>2, <1>5, <1>6 DEF FindAllByIncidencia, sendVars
<1>8. cut \subseteq Messages
  BY <1>1, <1>6 DEF ConnectedInv, Views
<1>9. /\ view'[k].seen = view[k].seen \cup page /\ view'[k].oldest = x
      /\ view'[k].cursors = cut /\ view'[k] \in Views
      /\ \A j \in Sockets \ {k} : view'[j] = view[j]
  BY <1>4, <1>7, <1>8 DEF ConnectedInv, Views
<1>10. view' \in [Sockets -> Views]
  BY <1>7, <1>9 DEF ConnectedInv
<1>11. ConnectedInv'
  BY <1>7, <1>9, <1>10 DEF ConnectedInv
<1>12. ASSUME NEW m \in emitted, m >= x
       PROVE  \/ m \in view'[k].seen
              \/ \E n \in cut : m < n /\ Millisecond[m] = Millisecond[n]
  <2>1. m \in Stored /\ m \in Messages
    BY DEF SendingInv, ChatTypes, Stored
  <2>2. CASE m \in M
    BY <1>4, <1>9, <1>12, <2>1, <2>2, PagesHaveNoHoles, MessagesAreNats
  <2>3. CASE m \notin M
    <3>1. old # NULL /\ ~ (Millisecond[m] < Millisecond[old]) /\ old \in Messages
      BY <1>1, <1>3, <2>1, <2>3 DEF ConnectedInv, Views
    <3>2. CASE m >= old
      BY <1>1, <1>6, <1>9, <3>1, <3>2 DEF NoMessageFallsBetween
    <3>3. CASE ~ (m >= old)
      <4>1. m < old
        BY <2>1, <3>1, <3>3, MessagesAreNats
      <4>2. Millisecond[m] <= Millisecond[old]
        BY <2>1, <3>1, <4>1 DEF ChatAssumption
      <4>3. Millisecond[m] \in Nat /\ Millisecond[old] \in Nat
        BY <2>1, <3>1 DEF ChatAssumption
      <4>4. Millisecond[m] = Millisecond[old]
        BY <3>1, <4>2, <4>3
      <4>5. old \in cut
        BY <1>6, <3>1
      <4>6. QED
        BY <4>1, <4>4, <4>5
    <3>4. QED
      BY <3>2, <3>3
  <2>4. QED
    BY <2>2, <2>3
<1>13. NoMessageFallsBetween'
  BY <1>7, <1>9, <1>12 DEF NoMessageFallsBetween
<1>14. QED
  BY <1>11, <1>13

-----------------------------------------------------------------------------
(* Every step preserves it *)

\* A step that touches no socket, no screen and no emission.
LEMMA StillSockets ==
    ASSUME ConnectedInv, NoMessageFallsBetween, UNCHANGED <<conn, view, emitted>>
    PROVE  ConnectedInv' /\ NoMessageFallsBetween'
BY DEF ConnectedInv, NoMessageFallsBetween

LEMMA StillSendings ==
    ASSUME SendingInv, UNCHANGED <<message, stamped, chatTask, emitted, heard, ended>>
    PROVE  SendingInv'
<1>1. ChatTypes'
  BY DEF SendingInv, ChatTypes, Stored
<1>2. ASSUME NEW s \in ChatSlots PROVE SoundChat(chatTask[s])'
  <2>1. SoundChat(chatTask[s])
    BY DEF SendingInv
  <2>2. QED
    BY <2>1 DEF SoundChat
<1>3. QED
  BY <1>1, <1>2 DEF SendingInv

LEMMA ChatInitSound == ChatInit => ChatInv
<1> SUFFICES ASSUME ChatInit PROVE ChatInv
  OBVIOUS
<1>1. /\ MaxRequests \in Nat /\ MaxMessages \in Nat
      /\ NoConnection \in Connections /\ NoView \in Views
      /\ NoView.oldest = NULL
      /\ ~ NoConnection.joining /\ ~ NoConnection.inRoom
  BY DEF NoConnection, Connections, NoView, Views, ChatAssumption
<1>2. ConnectedInv /\ NoMessageFallsBetween
  BY <1>1 DEF ConnectedInv, NoMessageFallsBetween, ChatInit
<1>3. ChatTypes /\ \A s \in ChatSlots : chatTask[s] = IdleChat
  BY <1>1, IdleChatType DEF ChatTypes, ChatInit
<1>4. SendingInv
  BY <1>3, IdleChatType DEF SendingInv, About, ChatInit
<1>5. QED
  BY <1>1, <1>2, <1>4 DEF ChatInv, ChatInit

LEMMA ChatNextSound ==
    ASSUME ChatInv, [ChatNext]_chatVars
    PROVE  ChatInv'
<1>1. SendingInv /\ ConnectedInv /\ NoMessageFallsBetween /\ incident \in IncidentStates
      /\ requests \in 0..MaxRequests
  BY DEF ChatInv
<1>2. /\ \A k \in Sockets : conn[k].inRoom => conn[k].userId \in Users
      /\ \A k \in Sockets : conn[k].userId # NULL => conn[k].userId \in Users
  BY <1>1 DEF ConnectedInv, Connections
<1>3. requests' \in 0..MaxRequests
  <2>1. MaxRequests \in Nat
    BY DEF ChatAssumption
  <2>2. CASE Requests
    BY <1>1, <2>1, <2>2 DEF Requests
  <2>3. CASE GoesOn \/ UNCHANGED chatVars
    BY <1>1, <2>3 DEF GoesOn, chatVars
  <2>4. QED
    BY <2>2, <2>3 DEF ChatNext
<1>4. ASSUME NEW k \in Sockets, SocketSteps(k)
      PROVE  ChatInv'
  <2>1. UNCHANGED <<incident, message, stamped, chatTask, emitted, heard, ended>>
    BY <1>4 DEF SocketSteps, HandleConnection, HandleJoinRoom,
         HandleLeaveRoom, HandleDisconnect, Authenticated, Joined,
         sendVars
  <2>2. QED
    BY <1>1, <1>3, <1>4, <2>1, SocketStepsKeep, StillSendings DEF ChatInv
<1>5. ASSUME NEW k \in Sockets, FindAllByIncidencia(k)
      PROVE  ChatInv'
  <2>1. UNCHANGED <<incident, message, stamped, chatTask, emitted, heard, ended>>
    BY <1>5 DEF FindAllByIncidencia, sendVars
  <2>2. QED
    BY <1>1, <1>3, <1>5, <2>1, PagesJoinUp, StillSendings DEF ChatInv
<1>6. ASSUME NEW s \in ChatSlots,
             \/ \E u \in Users : SendMessage(s, u)
             \/ \E k \in Sockets : HandleSendMessage(s, k)
      PROVE  ChatInv'
  <2>1. UNCHANGED <<incident, conn, view, emitted>>
    BY <1>6 DEF SendMessage, HandleSendMessage
  <2>2. SendingInv'
    <3>1. ASSUME NEW k \in Sockets, HandleSendMessage(s, k)
          PROVE  conn[k].userId \in Users
      BY <1>2, <3>1 DEF HandleSendMessage
    <3>2. QED
      BY <1>1, <1>6, <3>1, BegunSendings
  <2>3. QED
    BY <1>1, <1>3, <2>1, <2>2, StillSockets DEF ChatInv
<1>7. ASSUME NEW u \in Users, MarkMultipleAsRead(u)
      PROVE  ChatInv'
  <2>1. UNCHANGED <<incident, conn, view, emitted>>
    BY <1>7 DEF MarkMultipleAsRead
  <2>2. QED
    BY <1>1, <1>3, <1>7, <2>1, MarkKeepsSendings, StillSockets DEF ChatInv
<1>8. ASSUME IncidentChanges
      PROVE  ChatInv'
  BY <1>1, <1>3, <1>8, StillSendings, StillSockets
     DEF ChatInv, IncidentChanges, sendVars
<1>9. ASSUME NEW s \in ChatSlots,
             Insert(s) \/ Commit(s) \/ Announce(s) \/ Fails(s)
      PROVE  ChatInv'
  <2>1. UNCHANGED <<incident, conn, view, emitted>>
    BY <1>9 DEF Insert, Commit, Announce, Fails
  <2>2. SendingInv'
    BY <1>1, <1>9, InsertKeepsSendings, CommitKeepsSendings, AnnounceKeepsSendings,
       FailsKeepsSendings
  <2>3. QED
    BY <1>1, <1>3, <2>1, <2>2, StillSockets DEF ChatInv
<1>10. ASSUME NEW s \in ChatSlots, Emit(s)
       PROVE  ChatInv'
  <2>1. UNCHANGED incident
    BY <1>10 DEF Emit
  <2>2. SendingInv'
    BY <1>1, <1>2, <1>10, EmitKeepsSendings
  <2>3. QED
    BY <1>1, <1>3, <1>10, <2>1, <2>2, EmitReachesTheRoom DEF ChatInv
<1>11. ASSUME UNCHANGED chatVars
       PROVE  ChatInv'
  BY <1>1, <1>3, <1>11, StillSendings, StillSockets DEF ChatInv, chatVars
<1>12. QED
  BY <1>4, <1>5, <1>6, <1>7, <1>8, <1>9, <1>10, <1>11
     DEF ChatNext, Requests, GoesOn, SocketSteps

LEMMA ChatInductive == ChatSpec => []ChatInv
<1>1. ChatInit => ChatInv
  BY ChatInitSound
<1>2. ChatInv /\ [ChatNext]_chatVars => ChatInv'
  BY ChatNextSound
<1>3. QED
  BY <1>1, <1>2, PTL DEF ChatSpec

-----------------------------------------------------------------------------
(* What the chat promises *)

\* Sockets, sendings, screens and rows keep their types.
THEOREM ChatTypeCorrect == ChatSpec => []ChatTypeOK
<1>1. ChatInv => ChatTypeOK
  BY DEF ChatInv, SendingInv, ChatTypes, ConnectedInv, ChatTypeOK, Stored
<1>2. QED
  BY <1>1, ChatInductive, PTL

\* A screen that joined the room before it loaded its first page misses no
\* emitted message from its oldest on, except those created before a cursor in
\* the cursor's millisecond, however the insertions, the commits, the emissions
\* and the pages of any number of users interleave.
THEOREM NoMessageFallsBetweenPages == ChatSpec => []NoMessageFallsBetween
<1>1. ChatInv => NoMessageFallsBetween
  BY DEF ChatInv
<1>2. QED
  BY <1>1, ChatInductive, PTL

\* Only an emission by HTTP and an announcement end the sending of a message.
LEMMA OnlyTellingEnds ==
    ASSUME [ChatNext]_chatVars,
           \A s \in ChatSlots : ~ (Emit(s) \/ Announce(s))
    PROVE  ended' = ended
<1>1. CASE UNCHANGED chatVars
  BY <1>1 DEF chatVars
<1>2. CASE Requests
  BY <1>2 DEF Requests, HandleConnection, HandleJoinRoom, HandleLeaveRoom, HandleDisconnect,
     FindAllByIncidencia, HandleSendMessage, SendMessage, MarkMultipleAsRead,
     IncidentChanges, sendVars
<1>3. CASE GoesOn
  BY <1>3 DEF GoesOn, Authenticated, Joined, Insert, Commit, Fails, sendVars
<1>4. QED
  BY <1>1, <1>2, <1>3 DEF ChatNext

\* Whoever is assigned and has a socket is told of a client's message, unless
\* they were in the room.
LEMMA TheOnlineAreTold ==
    ASSUME NEW e, e # NULL, \E k \in Sockets : conn[k].userId = e
    PROVE  e \in Told(e)
BY DEF Told

\* When the sending of a client's message goes through, by either way, the
\* employee it found assigned has heard of it, in the room or by an
\* announcement, unless there is none or none of their sockets is connected.
THEOREM AssignedEmployeesHear == ChatSpec => AssignedEmployeeHears
<1> DEFINE Hears ==
        \A x \in ended' \ ended :
            x.employee # NULL /\ (\E k \in Sockets : conn[k].userId = x.employee) =>
                [message |-> x.message, user |-> x.employee] \in heard'
<1>1. ChatInv /\ [ChatNext]_chatVars => Hears
  <2> SUFFICES ASSUME ChatInv, [ChatNext]_chatVars,
                      NEW x \in ended' \ ended, x.employee # NULL,
                      \E k \in Sockets : conn[k].userId = x.employee
               PROVE  [message |-> x.message, user |-> x.employee] \in heard'
    OBVIOUS
  <2>1. x.employee \in Told(x.employee)
    BY TheOnlineAreTold
  <2>2. PICK s \in ChatSlots : Emit(s) \/ Announce(s)
    BY OnlyTellingEnds
  <2>3. CASE Emit(s)
    <3>1. x.message = chatTask[s].message /\ x.employee = chatTask[s].employee
      BY <2>3 DEF Emit, Finish
    <3>2. QED
      BY <2>1, <2>3, <3>1 DEF Emit
  <2>4. CASE Announce(s)
    <3>1. x.message = chatTask[s].message /\ x.employee = incident.assigned
      BY <2>4 DEF Announce, Finish
    <3>2. CASE EmployeeInRoom(chatTask[s], x.employee)
      <4>1. SoundChat(chatTask[s]) /\ chatTask[s].at = "announce"
        BY <2>4 DEF ChatInv, SendingInv, Announce
      <4>2. [message |-> x.message, user |-> x.employee] \in heard
        BY <3>1, <3>2, <4>1 DEF SoundChat, EmployeeInRoom
      <4>3. heard' = heard
        BY <2>4, <3>1, <3>2 DEF Announce
      <4>4. QED
        BY <4>2, <4>3
    <3>3. CASE ~ EmployeeInRoom(chatTask[s], x.employee)
      BY <2>1, <2>4, <3>1, <3>3 DEF Announce
    <3>4. QED
      BY <3>2, <3>3
  <2>5. QED
    BY <2>2, <2>3, <2>4
<1>2. ChatInv /\ [ChatNext]_chatVars => [Hears]_chatVars
  BY <1>1
<1>3. QED
  BY <1>2, ChatInductive, PTL DEF ChatSpec, AssignedEmployeeHears
=============================================================================
