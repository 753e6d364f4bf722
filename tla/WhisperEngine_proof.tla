------------------------ MODULE WhisperEngine_proof ------------------------
(***************************************************************************)
(* Proofs about WhisperEngine, for every set of calls and jobs, any number *)
(* of settings edits, overlapping or cancelled calls: its variables keep   *)
(* their types, it never uses a freed context nor one context from two     *)
(* threads, and it keeps whisper.cpp's contract, NativeContext.  When      *)
(* calls do not overlap, an engine at rest holds the current model, ready  *)
(* to be used, and nothing else.                                           *)
(***************************************************************************)
EXTENDS WhisperEngine, TLAPS

\* What the executor's queue promises: a task stands in one place, and whoever
\* queued it waits for it.
QueueInv ==
    /\ \A x, y \in Calls : \A i \in 1..Len(queue[x]), k \in 1..Len(queue[y]) :
         queue[x][i] = queue[y][k] => x = y /\ i = k
    /\ \A x \in Calls : \A i \in 1..Len(queue[x]) :
         IF queue[x][i].kind = "release"
         THEN callStep[queue[x][i].who] = "releasing"
         ELSE /\ jobStep[queue[x][i].who] = "queued"
              /\ jobContext[queue[x][i].who] = x

\* The executor's thread and the job that is inside the native code agree.
ThreadInv ==
    /\ \A x \in Calls : thread[x] # None => /\ ptr[x] = "live"
                                            /\ jobStep[thread[x]] = "native"
                                            /\ jobContext[thread[x]] = x
    /\ \A j \in Jobs : jobStep[j] = "native" => /\ jobContext[j] \in Calls
                                                /\ thread[jobContext[j]] = j

\* A call that has not created its context yet has none in memory.
BeforeCreate == {"idle", "readPath", "readTimestamp", "resetPath", "check",
                 "releasing", "forget", "create"}
CreateInv == \A c \in Calls : callStep[c] \in BeforeCreate => ptr[c] = "absent"

IInv == TypeOK /\ QueueInv /\ ThreadInv /\ CreateInv

-----------------------------------------------------------------------------
\* What the two queue operations do, position by position.
LEMMA TailFacts ==
    ASSUME NEW T, NEW s \in Seq(T), s # <<>>
    PROVE  /\ Tail(s) \in Seq(T)
           /\ Head(s) \in T /\ Head(s) = s[1] /\ Len(s) \in Nat /\ Len(s) >= 1
           /\ Len(Tail(s)) = Len(s) - 1
           /\ \A i \in 1..Len(Tail(s)) : i + 1 \in 2..Len(s) /\ Tail(s)[i] = s[i+1]
  OBVIOUS

LEMMA AppendFacts ==
    ASSUME NEW T, NEW s \in Seq(T), NEW e \in T
    PROVE  /\ Append(s, e) \in Seq(T)
           /\ Len(s) \in Nat /\ Len(Append(s, e)) = Len(s) + 1
           /\ \A i \in 1..Len(s) : Append(s, e)[i] = s[i]
           /\ Append(s, e)[Len(s) + 1] = e
  OBVIOUS

-----------------------------------------------------------------------------
\* Type correctness: every variable keeps its type in every reachable state.
LEMMA InitType == Init => TypeOK
  <1> SUFFICES ASSUME Init PROVE TypeOK
    OBVIOUS
  <1>1. <<>> \in Seq(Task)
    OBVIOUS
  <1>2. queue \in [Calls -> Seq(Task)]
    BY <1>1 DEF Init
  <1>3. Default \in Paths
    BY DEF Paths
  <1> QED
    BY <1>2, <1>3, EngineAssumption DEF Init, TypeOK, CallStep, JobStep

LEMMA NextType == TypeOK /\ [Next]_vars => TypeOK'
  <1> SUFFICES ASSUME TypeOK, [Next]_vars PROVE TypeOK'
    OBVIOUS
  <1> USE EngineAssumption DEF TypeOK, Paths, CallStep, JobStep, GoTo
  <1>1. ASSUME NEW p \in Paths, EditSettings(p) PROVE TypeOK'
    BY <1>1 DEF EditSettings, fieldVars, callVars, contextVars, jobVars
  <1>2. ASSUME NEW c \in Calls, Initialize(c) PROVE TypeOK'
    BY <1>2 DEF Initialize, fieldVars, contextVars, jobVars
  <1>3. ASSUME NEW c \in Calls, ReadPath(c) PROVE TypeOK'
    BY <1>3 DEF ReadPath, settingsVars, fieldVars, contextVars, jobVars
  <1>4. ASSUME NEW c \in Calls, ReadTimestamp(c) PROVE TypeOK'
    BY <1>4 DEF ReadTimestamp, settingsVars, fieldVars, contextVars, jobVars
  <1>5. ASSUME NEW c \in Calls, ResetPath(c) PROVE TypeOK'
    BY <1>5 DEF ResetPath, fieldVars, contextVars, jobVars
  <1>6. ASSUME NEW c \in Calls, AlreadyInitialized(c) \/ NothingToRelease(c)
        PROVE  TypeOK'
    BY <1>6 DEF AlreadyInitialized, NothingToRelease, settingsVars, fieldVars,
                contextVars, jobVars
  <1>7. ASSUME NEW c \in Calls, ReleaseOld(c) PROVE TypeOK'
    <2> DEFINE t == [kind |-> "release", who |-> c]
    <2>1. t \in Task
      BY DEF Task
    <2>2. whisperContext \in Calls /\ Append(queue[whisperContext], t) \in Seq(Task)
      BY <1>7, <2>1, AppendFacts DEF ReleaseOld
    <2>3. queue' \in [Calls -> Seq(Task)]
      BY <1>7, <2>2 DEF ReleaseOld
    <2> QED
      BY <1>7, <2>3 DEF ReleaseOld, settingsVars, fieldVars, jobVars
  <1>8. ASSUME NEW c \in Calls, ForgetOld(c) PROVE TypeOK'
    BY <1>8 DEF ForgetOld, settingsVars, contextVars, jobVars
  <1>9. ASSUME NEW c \in Calls, ModelMissing(c) \/ CreateFails(c) \/ CallCancelled(c)
        PROVE  TypeOK'
    <2>1. Failed(c)
      BY <1>9 DEF ModelMissing, CreateFails, CallCancelled
    <2> QED
      BY <2>1 DEF Failed, settingsVars, contextVars, jobVars
  <1>10. ASSUME NEW c \in Calls, CreateContext(c) PROVE TypeOK'
    BY <1>10 DEF CreateContext, settingsVars, fieldVars, jobVars
  <1>11. ASSUME NEW c \in Calls, PublishContext(c) PROVE TypeOK'
    BY <1>11 DEF PublishContext, settingsVars, contextVars, jobVars
  <1>12. ASSUME NEW c \in Calls, ConfirmContext(c) PROVE TypeOK'
    BY <1>12 DEF ConfirmContext, settingsVars, contextVars, jobVars
  <1>13. ASSUME NEW x \in Calls, FreeContext(x) PROVE TypeOK'
    <2>1. Tail(queue[x]) \in Seq(Task) /\ Head(queue[x]) \in Task
      BY <1>13, TailFacts DEF FreeContext
    <2>2. Head(queue[x]).who \in Calls
      BY <1>13, <2>1 DEF FreeContext, Task
    <2> QED
      BY <1>13, <2>1, <2>2 DEF FreeContext, settingsVars, fieldVars, jobVars
  <1>14. ASSUME NEW x \in Calls, TranscribeFreed(x) PROVE TypeOK'
    <2>1. Tail(queue[x]) \in Seq(Task) /\ Head(queue[x]) \in Task
      BY <1>14, TailFacts DEF TranscribeFreed
    <2> QED
      BY <1>14, <2>1 DEF TranscribeFreed, settingsVars, fieldVars, callVars
  <1>15. ASSUME NEW x \in Calls, FullTranscribe(x) PROVE TypeOK'
    <2>1. Tail(queue[x]) \in Seq(Task) /\ Head(queue[x]) \in Task
      BY <1>15, TailFacts DEF FullTranscribe
    <2>2. Head(queue[x]).who \in Jobs
      BY <1>15, <2>1 DEF FullTranscribe, Task
    <2> QED
      BY <1>15, <2>1, <2>2 DEF FullTranscribe, settingsVars, fieldVars, callVars
  <1>16. ASSUME NEW x \in Calls, TranscribeReturns(x) PROVE TypeOK'
    BY <1>16 DEF TranscribeReturns, settingsVars, fieldVars, callVars
  <1>17. ASSUME NEW x \in Calls, Finalize(x) PROVE TypeOK'
    BY <1>17 DEF Finalize, settingsVars, fieldVars, callVars, jobVars
  <1>18. ASSUME NEW j \in Jobs, NoContext(j) PROVE TypeOK'
    BY <1>18 DEF NoContext, settingsVars, fieldVars, callVars, contextVars
  <1>19. ASSUME NEW j \in Jobs, TranscribeData(j) PROVE TypeOK'
    <2> DEFINE t == [kind |-> "transcribe", who |-> j]
    <2>1. t \in Task
      BY DEF Task
    <2>2. whisperContext \in Calls /\ Append(queue[whisperContext], t) \in Seq(Task)
      BY <1>19, <2>1, AppendFacts DEF TranscribeData
    <2>3. queue' \in [Calls -> Seq(Task)]
      BY <1>19, <2>2 DEF TranscribeData
    <2> QED
      BY <1>19, <2>2, <2>3 DEF TranscribeData, settingsVars, fieldVars, callVars
  <1>20. CASE SpoilImport
    BY <1>20 DEF SpoilImport, fieldVars, callVars, contextVars, jobVars
  <1>21. CASE UNCHANGED vars
    BY <1>21 DEF vars, settingsVars, fieldVars, callVars, contextVars, jobVars
  <1> QED
    BY <1>1, <1>2, <1>3, <1>4, <1>5, <1>6, <1>7, <1>8, <1>9, <1>10, <1>11, <1>12,
       <1>13, <1>14, <1>15, <1>16, <1>17, <1>18, <1>19, <1>20,
       <1>21
       DEF Next, Call, Executor, Job

THEOREM TypeCorrect == Spec => []TypeOK
  BY InitType, NextType, PTL DEF Spec

-----------------------------------------------------------------------------
\* The initial state satisfies the inductive invariant, and every step keeps it.
LEMMA InitInv == Init => IInv
  <1> SUFFICES ASSUME Init PROVE IInv
    OBVIOUS
  <1>1. \A x \in Calls : queue[x] = <<>> /\ Len(queue[x]) = 0 /\ 1..Len(queue[x]) = {}
    BY DEF Init
  <1>2. QueueInv
    BY <1>1 DEF QueueInv
  <1>3. ThreadInv /\ CreateInv
    BY DEF Init, ThreadInv, CreateInv
  <1> QED
    BY <1>2, <1>3, InitType DEF IInv

\* A step of a call that neither queues a task nor takes one.
LEMMA CallStepInv ==
    ASSUME IInv, NEW c \in Calls,
           callStep[c] # "releasing", UNCHANGED <<contextVars, jobVars>>,
           callStep' = [callStep EXCEPT ![c] = callStep'[c]],
           callStep'[c] \in BeforeCreate => callStep[c] \in BeforeCreate
    PROVE  QueueInv' /\ ThreadInv' /\ CreateInv'
  <1> USE DEF IInv, contextVars, jobVars
  <1>1. \A d \in Calls : callStep[d] = "releasing" => callStep'[d] = "releasing"
    BY DEF TypeOK
  <1>2. QueueInv'
    <2>1. ASSUME NEW x \in Calls, NEW i \in 1..Len(queue[x])
          PROVE  IF queue[x][i].kind = "release"
                 THEN callStep'[queue[x][i].who] = "releasing"
                 ELSE /\ jobStep[queue[x][i].who] = "queued"
                      /\ jobContext[queue[x][i].who] = x
      <3>1. queue[x][i] \in Task
        BY DEF TypeOK
      <3>2. CASE queue[x][i].kind = "release"
        BY <3>1, <3>2, <1>1 DEF QueueInv, Task
      <3>3. CASE queue[x][i].kind # "release"
        BY <3>3 DEF QueueInv
      <3> QED
        BY <3>2, <3>3
    <2> QED
      BY <2>1 DEF QueueInv
  <1>3. ThreadInv'
    BY DEF ThreadInv
  <1>4. CreateInv'
    BY DEF CreateInv, TypeOK
  <1> QED
    BY <1>2, <1>3, <1>4

\* Queueing a task that stands in no queue yet.
LEMMA EnqueueInv ==
    ASSUME TypeOK, QueueInv, NEW y \in Calls, NEW t \in Task,
           queue' = [queue EXCEPT ![y] = Append(@, t)],
           \A x \in Calls : \A i \in 1..Len(queue[x]) : queue[x][i] # t,
           \A d \in Calls : callStep[d] = "releasing" => callStep'[d] = "releasing",
           \A j \in Jobs : jobStep[j] = "queued" =>
                jobStep'[j] = "queued" /\ jobContext'[j] = jobContext[j],
           IF t.kind = "release"
           THEN callStep'[t.who] = "releasing"
           ELSE jobStep'[t.who] = "queued" /\ jobContext'[t.who] = y
    PROVE  QueueInv'
  <1>1. queue'[y] = Append(queue[y], t) /\ \A x \in Calls \ {y} : queue'[x] = queue[x]
    BY DEF TypeOK
  <1>2. /\ Len(queue[y]) \in Nat /\ Len(queue'[y]) = Len(queue[y]) + 1
        /\ \A i \in 1..Len(queue[y]) : queue'[y][i] = queue[y][i]
        /\ queue'[y][Len(queue[y]) + 1] = t
    BY <1>1, AppendFacts DEF TypeOK
  <1>3. ASSUME NEW x \in Calls, NEW i \in 1..Len(queue'[x])
        PROVE  \/ i \in 1..Len(queue[x]) /\ queue'[x][i] = queue[x][i]
               \/ x = y /\ i = Len(queue[y]) + 1 /\ queue'[x][i] = t
    BY <1>1, <1>2
  <1>4. ASSUME NEW x \in Calls, NEW z \in Calls, NEW i \in 1..Len(queue'[x]),
               NEW k \in 1..Len(queue'[z]), queue'[x][i] = queue'[z][k]
        PROVE  x = z /\ i = k
    BY <1>3, <1>4 DEF QueueInv
  <1>5. ASSUME NEW x \in Calls, NEW i \in 1..Len(queue'[x])
        PROVE  IF queue'[x][i].kind = "release"
               THEN callStep'[queue'[x][i].who] = "releasing"
               ELSE /\ jobStep'[queue'[x][i].who] = "queued"
                    /\ jobContext'[queue'[x][i].who] = x
    <2>1. CASE i \in 1..Len(queue[x]) /\ queue'[x][i] = queue[x][i]
      <3>1. queue[x][i] \in Task
        BY <2>1 DEF TypeOK
      <3> QED
        BY <2>1, <3>1 DEF QueueInv, Task
    <2>2. CASE x = y /\ queue'[x][i] = t
      BY <2>2
    <2> QED
      BY <1>3, <2>1, <2>2
  <1> QED
    BY <1>4, <1>5 DEF QueueInv

\* Taking the head of a queue: the tasks left are other tasks.
LEMMA DequeueInv ==
    ASSUME TypeOK, QueueInv, NEW y \in Calls, queue[y] # <<>>,
           queue' = [queue EXCEPT ![y] = Tail(@)],
           \A d \in Calls : callStep[d] = "releasing" =>
                \/ callStep'[d] = "releasing"
                \/ Head(queue[y]) = [kind |-> "release", who |-> d],
           \A j \in Jobs : jobStep[j] = "queued" =>
                \/ jobStep'[j] = "queued" /\ jobContext'[j] = jobContext[j]
                \/ Head(queue[y]) = [kind |-> "transcribe", who |-> j]
    PROVE  QueueInv'
  <1>1. queue'[y] = Tail(queue[y]) /\ \A x \in Calls \ {y} : queue'[x] = queue[x]
    BY DEF TypeOK
  <1>2. /\ Head(queue[y]) = queue[y][1]
        /\ Len(queue[y]) \in Nat /\ Len(queue[y]) >= 1
        /\ Len(queue'[y]) = Len(queue[y]) - 1
        /\ \A i \in 1..Len(queue'[y]) : i + 1 \in 2..Len(queue[y])
                                       /\ queue'[y][i] = queue[y][i + 1]
    BY <1>1, TailFacts DEF TypeOK
  <1>3. ASSUME NEW x \in Calls, NEW i \in 1..Len(queue'[x])
        PROVE  \E was \in 1..Len(queue[x]) :
                 /\ queue'[x][i] = queue[x][was]
                 /\ was = (IF x = y THEN i + 1 ELSE i)
                 /\ x = y => was # 1
    <2>1. CASE x = y
      <3>1. i \in 1..Len(queue'[y])
        BY <2>1
      <3>2. /\ i + 1 \in 1..Len(queue[y]) /\ i + 1 # 1
            /\ queue'[y][i] = queue[y][i + 1]
        BY <1>2, <3>1
      <3> QED
        BY <2>1, <3>2
    <2>2. CASE x # y
      <3>1. queue'[x] = queue[x]
        BY <1>1, <2>2
      <3>2. i \in 1..Len(queue[x]) /\ queue'[x][i] = queue[x][i]
        BY <3>1
      <3> QED
        BY <2>2, <3>2
    <2> QED
      BY <2>1, <2>2
  <1>4. ASSUME NEW x \in Calls, NEW z \in Calls, NEW i \in 1..Len(queue'[x]),
               NEW k \in 1..Len(queue'[z]), queue'[x][i] = queue'[z][k]
        PROVE  x = z /\ i = k
    <2>1. PICK a \in 1..Len(queue[x]) :
             queue'[x][i] = queue[x][a] /\ a = (IF x = y THEN i + 1 ELSE i)
      BY <1>3
    <2>2. PICK b \in 1..Len(queue[z]) :
             queue'[z][k] = queue[z][b] /\ b = (IF z = y THEN k + 1 ELSE k)
      BY <1>3
    <2>3. x = z /\ a = b
      BY <1>4, <2>1, <2>2 DEF QueueInv
    <2> QED
      BY <2>1, <2>2, <2>3
  <1>5. ASSUME NEW x \in Calls, NEW i \in 1..Len(queue'[x])
        PROVE  queue'[x][i] # Head(queue[y])
    <2>1. 1 \in 1..Len(queue[y])
      BY <1>2
    <2>2. PICK a \in 1..Len(queue[x]) :
             queue'[x][i] = queue[x][a] /\ (x = y => a # 1)
      BY <1>3
    <2>3. queue[x][a] # queue[y][1]
      BY <2>1, <2>2 DEF QueueInv
    <2> QED
      BY <1>2, <2>2, <2>3
  <1>6. ASSUME NEW x \in Calls, NEW i \in 1..Len(queue'[x])
        PROVE  IF queue'[x][i].kind = "release"
               THEN callStep'[queue'[x][i].who] = "releasing"
               ELSE /\ jobStep'[queue'[x][i].who] = "queued"
                    /\ jobContext'[queue'[x][i].who] = x
    <2> DEFINE t == queue'[x][i]
    <2>1. t \in Task /\ t # Head(queue[y])
      <3>1. PICK a \in 1..Len(queue[x]) : t = queue[x][a]
        BY <1>3
      <3>2. queue[x][a] \in Task
        BY DEF TypeOK
      <3> QED
        BY <1>5, <3>1, <3>2
    <2>2. IF t.kind = "release"
          THEN callStep[t.who] = "releasing"
          ELSE jobStep[t.who] = "queued" /\ jobContext[t.who] = x
      <3>1. \E a \in 1..Len(queue[x]) : t = queue[x][a]
        BY <1>3
      <3> HIDE DEF t
      <3> QED
        BY <3>1 DEF QueueInv
    <2>3. CASE t.kind = "release"
      <3>1. t.who \in Calls /\ t = [kind |-> "release", who |-> t.who]
        BY <2>1, <2>3 DEF Task
      <3> QED
        BY <2>1, <2>2, <2>3, <3>1
    <2>4. CASE t.kind # "release"
      <3>1. t.who \in Jobs /\ t = [kind |-> "transcribe", who |-> t.who]
        BY <2>1, <2>4 DEF Task
      <3> QED
        BY <2>1, <2>2, <2>4, <3>1
    <2> QED
      BY <2>3, <2>4
  <1> QED
    BY <1>4, <1>6 DEF QueueInv

\* One case for each action: those of a call by CallStepInv, those that touch a
\* queue by EnqueueInv and DequeueInv.
LEMMA NextInv == IInv /\ [Next]_vars => IInv'
  <1> SUFFICES ASSUME IInv, [Next]_vars PROVE IInv'
    OBVIOUS
  <1> USE DEF IInv
  <1>0. TypeOK'
    BY NextType
  <1>1. ASSUME SpoilImport \/ \E p \in Paths : EditSettings(p)
        PROVE  QueueInv' /\ ThreadInv' /\ CreateInv'
    BY <1>1 DEF SpoilImport, EditSettings, callVars, contextVars, jobVars, QueueInv, ThreadInv,
                CreateInv
  <1>2. ASSUME NEW c \in Calls,
               \/ Initialize(c) \/ ReadPath(c) \/ ReadTimestamp(c) \/ ResetPath(c)
               \/ AlreadyInitialized(c) \/ NothingToRelease(c)
        PROVE  QueueInv' /\ ThreadInv' /\ CreateInv'
    <2>1. /\ callStep[c] \in BeforeCreate \ {"releasing"}
          /\ UNCHANGED <<contextVars, jobVars>>
          /\ callStep' = [callStep EXCEPT ![c] = callStep'[c]]
      BY <1>2 DEF Initialize, ReadPath, ReadTimestamp, ResetPath,
                  AlreadyInitialized, NothingToRelease, GoTo, BeforeCreate, TypeOK
    <2> QED
      BY <2>1, CallStepInv
  <1>3. ASSUME NEW c \in Calls,
               ModelMissing(c) \/ ForgetOld(c) \/ CreateFails(c) \/ CallCancelled(c)
        PROVE  QueueInv' /\ ThreadInv' /\ CreateInv'
    <2>1. /\ callStep[c] \in BeforeCreate \ {"releasing"}
          /\ UNCHANGED <<contextVars, jobVars>>
          /\ callStep' = [callStep EXCEPT ![c] = callStep'[c]]
      BY <1>3 DEF ModelMissing, ForgetOld, CreateFails, CallCancelled, Failed, GoTo, BeforeCreate,
                  TypeOK
    <2> QED
      BY <2>1, CallStepInv
  <1>4. ASSUME NEW c \in Calls, PublishContext(c) \/ ConfirmContext(c)
        PROVE  QueueInv' /\ ThreadInv' /\ CreateInv'
    <2>1. /\ callStep[c] # "releasing" /\ callStep'[c] \notin BeforeCreate
          /\ UNCHANGED <<contextVars, jobVars>>
          /\ callStep' = [callStep EXCEPT ![c] = callStep'[c]]
      BY <1>4 DEF PublishContext, ConfirmContext, GoTo, BeforeCreate, TypeOK
    <2> QED
      BY <2>1, CallStepInv
  <1>5. ASSUME NEW c \in Calls, CreateContext(c)
        PROVE  QueueInv' /\ ThreadInv' /\ CreateInv'
    <2>1. /\ ptr' = [ptr EXCEPT ![c] = "live"]
          /\ callStep[c] = "create" /\ callStep' = [callStep EXCEPT ![c] = "publish"]
          /\ UNCHANGED <<queue, thread, jobStep, jobContext>>
      BY <1>5 DEF CreateContext, GoTo, jobVars
    <2>2. \A d \in Calls : callStep[d] = "releasing" => callStep'[d] = "releasing"
      BY <2>1 DEF TypeOK
    <2>3. QueueInv'
      <3>1. \A x \in Calls : \A i \in 1..Len(queue[x]) : queue[x][i] \in Task
        BY DEF TypeOK
      <3> QED
        BY <2>1, <2>2, <3>1 DEF QueueInv, Task
    <2>4. ThreadInv'
      BY <2>1 DEF ThreadInv, TypeOK
    <2>5. CreateInv'
      BY <2>1 DEF CreateInv, BeforeCreate, TypeOK
    <2> QED
      BY <2>3, <2>4, <2>5
  <1>6. ASSUME NEW c \in Calls, ReleaseOld(c)
        PROVE  QueueInv' /\ ThreadInv' /\ CreateInv'
    <2> DEFINE t == [kind |-> "release", who |-> c]
    <2>1. /\ whisperContext \in Calls /\ t \in Task
          /\ queue' = [queue EXCEPT ![whisperContext] = Append(@, t)]
          /\ callStep[c] = "check" /\ callStep' = [callStep EXCEPT ![c] = "releasing"]
          /\ UNCHANGED <<ptr, thread, jobStep, jobContext>>
      BY <1>6 DEF ReleaseOld, GoTo, jobVars, TypeOK, Task
    <2>2. \A x \in Calls : \A i \in 1..Len(queue[x]) : queue[x][i] # t
      BY <2>1 DEF QueueInv
    <2>3. \A d \in Calls : callStep[d] = "releasing" => callStep'[d] = "releasing"
      BY <2>1 DEF TypeOK
    <2>4. callStep'[c] = "releasing"
      BY <2>1 DEF TypeOK
    <2>5. QueueInv'
      BY <2>1, <2>2, <2>3, <2>4, EnqueueInv, ZenonT(30)
    <2>6. ThreadInv'
      BY <2>1 DEF ThreadInv
    <2>7. CreateInv'
      BY <2>1 DEF CreateInv, BeforeCreate, TypeOK
    <2> QED
      BY <2>5, <2>6, <2>7
  <1>7. ASSUME NEW x \in Calls, FreeContext(x)
        PROVE  QueueInv' /\ ThreadInv' /\ CreateInv'
    <2> DEFINE c == Head(queue[x]).who
    <2>1. /\ queue[x] # <<>> /\ queue[x] \in Seq(Task)
          /\ 1 \in 1..Len(queue[x]) /\ Head(queue[x]) = queue[x][1]
          /\ Head(queue[x]) \in Task /\ Head(queue[x]).kind = "release"
      BY <1>7, TailFacts DEF FreeContext, TypeOK
    <2>2. c \in Calls /\ Head(queue[x]) = [kind |-> "release", who |-> c]
      BY <2>1 DEF Task
    <2>3. callStep[c] = "releasing"
      BY <2>1 DEF QueueInv
    <2>4. /\ queue' = [queue EXCEPT ![x] = Tail(@)]
          /\ callStep' = [callStep EXCEPT ![c] = "forget"]
          /\ ptr' = [ptr EXCEPT ![x] = IF @ = "live" THEN "freed" ELSE @]
          /\ thread[x] = None
          /\ UNCHANGED <<thread, jobStep, jobContext>>
      BY <1>7 DEF FreeContext, GoTo, jobVars
    <2> HIDE DEF c
    <2>5. \A d \in Calls : callStep[d] = "releasing" => callStep'[d] = "releasing" \/ d = c
      BY <2>4 DEF TypeOK
    <2>6. QueueInv'
      BY <2>1, <2>2, <2>4, <2>5, DequeueInv
    <2>7. ThreadInv'
      BY <2>4, EngineAssumption DEF ThreadInv, TypeOK
    <2>8. CreateInv'
      <3>1. \A d \in Calls : callStep'[d] \in BeforeCreate => callStep[d] \in BeforeCreate
        BY <2>2, <2>3, <2>4 DEF TypeOK, BeforeCreate
      <3>2. \A d \in Calls : ptr[d] = "absent" => ptr'[d] = "absent"
        BY <2>4 DEF TypeOK
      <3> QED
        BY <3>1, <3>2 DEF CreateInv
    <2> QED
      BY <2>6, <2>7, <2>8
  <1>8. ASSUME NEW x \in Calls, TranscribeFreed(x) \/ FullTranscribe(x)
        PROVE  QueueInv' /\ ThreadInv' /\ CreateInv'
    <2> DEFINE j == Head(queue[x]).who
    <2>1. /\ queue[x] # <<>> /\ queue[x] \in Seq(Task)
          /\ 1 \in 1..Len(queue[x]) /\ Head(queue[x]) = queue[x][1]
          /\ Head(queue[x]) \in Task /\ Head(queue[x]).kind = "transcribe"
      BY <1>8, TailFacts DEF TranscribeFreed, FullTranscribe, TypeOK
    <2>2. j \in Jobs /\ Head(queue[x]) = [kind |-> "transcribe", who |-> j]
      BY <2>1 DEF Task
    <2>3. jobStep[j] = "queued" /\ jobContext[j] = x
      BY <2>1 DEF QueueInv
    <2>4. /\ queue' = [queue EXCEPT ![x] = Tail(@)]
          /\ thread[x] = None
          /\ UNCHANGED <<callStep, ptr, jobContext>>
      BY <1>8 DEF TranscribeFreed, FullTranscribe, callVars
    <2>5. \/ /\ jobStep' = [jobStep EXCEPT ![j] = "done"]
             /\ UNCHANGED thread
          \/ /\ jobStep' = [jobStep EXCEPT ![j] = "native"]
             /\ ptr[x] = "live"
             /\ thread' = [thread EXCEPT ![x] = j]
      BY <1>8 DEF TranscribeFreed, FullTranscribe
    <2> HIDE DEF j
    <2>6. \A k \in Jobs \ {j} : jobStep'[k] = jobStep[k]
      BY <2>5 DEF TypeOK
    <2>7. QueueInv'
      BY <2>1, <2>2, <2>4, <2>6, DequeueInv
    <2>8. ThreadInv'
      <3>1. CASE jobStep' = [jobStep EXCEPT ![j] = "done"] /\ UNCHANGED thread
        BY <2>2, <2>3, <2>4, <3>1, EngineAssumption DEF ThreadInv, TypeOK
      <3>2. CASE /\ jobStep' = [jobStep EXCEPT ![j] = "native"] /\ ptr[x] = "live"
                 /\ thread' = [thread EXCEPT ![x] = j]
        BY <2>2, <2>3, <2>4, <3>2, EngineAssumption DEF ThreadInv, TypeOK
      <3> QED
        BY <2>5, <3>1, <3>2
    <2>9. CreateInv'
      BY <2>4 DEF CreateInv
    <2> QED
      BY <2>7, <2>8, <2>9
  <1>9. ASSUME NEW x \in Calls, TranscribeReturns(x)
        PROVE  QueueInv' /\ ThreadInv' /\ CreateInv'
    <2>1. /\ thread[x] # None /\ thread[x] \in Jobs /\ jobStep[thread[x]] = "native"
          /\ jobContext[thread[x]] = x
          /\ thread' = [thread EXCEPT ![x] = None]
          /\ jobStep' = [jobStep EXCEPT ![thread[x]] = "done"]
          /\ UNCHANGED <<callStep, ptr, queue, jobContext>>
      BY <1>9 DEF TranscribeReturns, ThreadInv, TypeOK, callVars
    <2>2. \A k \in Jobs : jobStep[k] = "queued" => jobStep'[k] = "queued"
      BY <2>1 DEF TypeOK
    <2>3. QueueInv'
      <3>1. \A y \in Calls : \A i \in 1..Len(queue[y]) : queue[y][i] \in Task
        BY DEF TypeOK
      <3> QED
        BY <2>1, <2>2, <3>1 DEF QueueInv, Task
    <2>4. ThreadInv'
      BY <2>1, EngineAssumption DEF ThreadInv, TypeOK
    <2>5. CreateInv'
      BY <2>1 DEF CreateInv
    <2> QED
      BY <2>3, <2>4, <2>5
  <1>10. ASSUME NEW x \in Calls, Finalize(x)
         PROVE  QueueInv' /\ ThreadInv' /\ CreateInv'
    <2>1. /\ ptr[x] = "live" /\ thread[x] = None
          /\ ptr' = [ptr EXCEPT ![x] = "freed"]
          /\ UNCHANGED <<callStep, queue, thread, jobStep, jobContext>>
      BY <1>10 DEF Finalize, callVars, jobVars
    <2>2. QueueInv'
      BY <2>1 DEF QueueInv
    <2>3. ThreadInv'
      BY <2>1, EngineAssumption DEF ThreadInv, TypeOK
    <2>4. CreateInv'
      BY <2>1 DEF CreateInv, TypeOK
    <2> QED
      BY <2>2, <2>3, <2>4
  <1>11. ASSUME NEW j \in Jobs, NoContext(j)
         PROVE  QueueInv' /\ ThreadInv' /\ CreateInv'
    <2>1. /\ jobStep[j] = "idle" /\ jobStep' = [jobStep EXCEPT ![j] = "done"]
          /\ UNCHANGED <<callStep, ptr, queue, thread, jobContext>>
      BY <1>11 DEF NoContext, callVars, contextVars
    <2>2. \A k \in Jobs : jobStep[k] = "queued" => jobStep'[k] = "queued"
      BY <2>1 DEF TypeOK
    <2>3. QueueInv'
      <3>1. \A y \in Calls : \A i \in 1..Len(queue[y]) : queue[y][i] \in Task
        BY DEF TypeOK
      <3> QED
        BY <2>1, <2>2, <3>1 DEF QueueInv, Task
    <2>4. ThreadInv'
      BY <2>1 DEF ThreadInv, TypeOK
    <2>5. CreateInv'
      BY <2>1 DEF CreateInv
    <2> QED
      BY <2>3, <2>4, <2>5
  <1>12. ASSUME NEW j \in Jobs, TranscribeData(j)
         PROVE  QueueInv' /\ ThreadInv' /\ CreateInv'
    <2> DEFINE t == [kind |-> "transcribe", who |-> j]
    <2>1. /\ whisperContext \in Calls /\ t \in Task
          /\ queue' = [queue EXCEPT ![whisperContext] = Append(@, t)]
          /\ jobStep[j] = "idle" /\ jobStep' = [jobStep EXCEPT ![j] = "queued"]
          /\ jobContext' = [jobContext EXCEPT ![j] = whisperContext]
          /\ UNCHANGED <<callStep, ptr, thread>>
      BY <1>12 DEF TranscribeData, callVars, TypeOK, Task
    <2>2. \A x \in Calls : \A i \in 1..Len(queue[x]) : queue[x][i] # t
      BY <2>1 DEF QueueInv
    <2>3. \A k \in Jobs \ {j} : jobStep'[k] = jobStep[k] /\ jobContext'[k] = jobContext[k]
      BY <2>1 DEF TypeOK
    <2>4. jobStep'[j] = "queued" /\ jobContext'[j] = whisperContext
      BY <2>1 DEF TypeOK
    <2>5. QueueInv'
      BY <2>1, <2>2, <2>3, <2>4, EnqueueInv, ZenonT(30)
    <2>6. ThreadInv'
      BY <2>1, <2>3, <2>4 DEF ThreadInv, TypeOK
    <2>7. CreateInv'
      BY <2>1 DEF CreateInv
    <2> QED
      BY <2>5, <2>6, <2>7
  <1>13. CASE UNCHANGED vars
    <2>1. UNCHANGED <<callStep, ptr, queue, thread, jobStep, jobContext>>
      BY <1>13 DEF vars, callVars, contextVars, jobVars
    <2>2. QueueInv'
      BY <2>1 DEF QueueInv
    <2>3. ThreadInv' /\ CreateInv'
      BY <2>1 DEF ThreadInv, CreateInv
    <2> QED
      BY <1>0, <2>2, <2>3
  <1> QED
    BY <1>0, <1>1, <1>2, <1>3, <1>4, <1>5, <1>6, <1>7, <1>8, <1>9, <1>10, <1>11,
       <1>12, <1>13 DEF Next, Call, Executor, Job

LEMMA Invariance == Spec => []IInv
  BY InitInv, NextInv, PTL DEF Spec

-----------------------------------------------------------------------------
\* No native call is ever inside freed memory.
THEOREM NeverUsedAfterFree == Spec => []NoUseAfterFree
  <1>1. IInv => NoUseAfterFree
    BY EngineAssumption DEF IInv, TypeOK, ThreadInv, NoUseAfterFree
  <1> QED
    BY <1>1, Invariance, PTL

\* No context is ever used by two threads at a time.
THEOREM OneThread == Spec => []OneThreadPerContext
  <1>1. IInv => OneThreadPerContext
    BY DEF IInv, ThreadInv, OneThreadPerContext
  <1> QED
    BY <1>1, Invariance, PTL

\* The engine implements the contract: each of its steps is a step of
\* NativeContext or leaves the native memory and the threads alone.
LEMMA NextContract == IInv /\ [Next]_vars => [Native!Next]_(Native!nvars)
  <1> SUFFICES ASSUME IInv, [Next]_vars PROVE [Native!Next]_(Native!nvars)
    OBVIOUS
  <1> USE DEF IInv, Native!nvars
  <1>1. ASSUME SpoilImport \/ \E p \in Paths : EditSettings(p)
        PROVE  UNCHANGED <<ptr, thread>>
    BY <1>1 DEF SpoilImport, EditSettings, contextVars
  <1>2. ASSUME NEW c \in Calls,
               \/ Initialize(c) \/ ReadPath(c) \/ ReadTimestamp(c) \/ ResetPath(c)
               \/ AlreadyInitialized(c) \/ ModelMissing(c) \/ ReleaseOld(c)
               \/ NothingToRelease(c) \/ ForgetOld(c) \/ CreateFails(c) \/ PublishContext(c)
               \/ ConfirmContext(c) \/ CallCancelled(c)
        PROVE  UNCHANGED <<ptr, thread>>
    BY <1>2 DEF Initialize, ReadPath, ReadTimestamp, ResetPath, AlreadyInitialized,
                ModelMissing, ReleaseOld, NothingToRelease, ForgetOld, CreateFails, PublishContext,
                ConfirmContext, CallCancelled, Failed, contextVars
  <1>3. ASSUME NEW c \in Calls, CreateContext(c) PROVE Native!Create(c)
    BY <1>3 DEF CreateContext, CreateInv, BeforeCreate, Native!Create
  <1>4. ASSUME NEW x \in Calls, FreeContext(x)
        PROVE  Native!Free(x) \/ UNCHANGED <<ptr, thread>>
    <2>1. CASE ptr[x] = "live"
      BY <1>4, <2>1 DEF FreeContext, Native!Free
    <2>2. CASE ptr[x] # "live"
      BY <1>4, <2>2 DEF FreeContext, TypeOK
    <2> QED
      BY <2>1, <2>2
  <1>5. ASSUME NEW x \in Calls, TranscribeFreed(x) PROVE UNCHANGED <<ptr, thread>>
    BY <1>5 DEF TranscribeFreed
  <1>6. ASSUME NEW x \in Calls, FullTranscribe(x)
        PROVE  \E j \in Jobs : Native!Enter(x, j)
    <2>1. Head(queue[x]) \in Task
      BY <1>6, TailFacts DEF FullTranscribe, TypeOK
    <2>2. Head(queue[x]).who \in Jobs
      BY <1>6, <2>1 DEF FullTranscribe, Task
    <2> QED
      BY <1>6, <2>2 DEF FullTranscribe, Native!Enter
  <1>7. ASSUME NEW x \in Calls, TranscribeReturns(x) PROVE Native!Leave(x)
    BY <1>7 DEF TranscribeReturns, Native!Leave
  <1>8. ASSUME NEW x \in Calls, Finalize(x) PROVE Native!Free(x)
    BY <1>8 DEF Finalize, Native!Free
  <1>9. ASSUME NEW j \in Jobs, NoContext(j) \/ TranscribeData(j)
        PROVE  UNCHANGED <<ptr, thread>>
    BY <1>9 DEF NoContext, TranscribeData, contextVars
  <1>10. CASE UNCHANGED vars
    BY <1>10 DEF vars, contextVars
  <1> QED
    BY <1>1, <1>2, <1>3, <1>4, <1>5, <1>6, <1>7, <1>8, <1>9, <1>10
       DEF Next, Call, Executor, Job, Native!Next

\* The engine keeps whisper.cpp's contract: the refinement, as a theorem.
THEOREM ContractKept == Spec => KeepsContract
  <1>1. Init => Native!Init
    BY DEF Init, Native!Init
  <1> QED
    BY <1>1, Invariance, NextContract, PTL DEF Spec, KeepsContract, Native!Spec
-----------------------------------------------------------------------------
(* One call at a time.  When calls of initialize() do not overlap the      *)
(* fields and the native memory agree between any two of its steps.        *)

OneAtATime == \A c, d \in Calls : Active(c) /\ Active(d) => c = d

\* The call that replaces the context is in one of these steps.
Replacing(c) == callStep[c] \in {"releasing", "forget", "create", "publish", "confirm"}

\* The context in the field was published by a call that got that far, and only
\* it is ever released.
FieldInv ==
    /\ whisperContext # None => callStep[whisperContext] \in {"confirm", "returned"}
    /\ \A x \in Calls : \A i \in 1..Len(queue[x]) :
          queue[x][i].kind = "release" => x = whisperContext

\* The only context in memory is the one in the field, or one that is about to
\* be published.
MemoryInv ==
    /\ \A x \in Calls : ptr[x] = "live" => x = whisperContext \/ callStep[x] = "publish"
    /\ \A c \in Calls :
         /\ callStep[c] \in {"create", "publish"} => whisperContext = None
         /\ callStep[c] = "publish" => ptr[c] = "live"
         /\ callStep[c] = "confirm" => whisperContext = c /\ ptr[c] = "live"
         /\ callStep[c] = "forget" => whisperContext # None /\ ptr[whisperContext] # "live"

\* Unless a call is replacing it, an initialised engine holds a live context
\* made from the model its fields name.
ReadyInv ==
    isInitialized /\ (\A c \in Calls : ~Replacing(c)) =>
        /\ whisperContext # None /\ ptr[whisperContext] = "live"
        /\ currentModelPath = readPath[whisperContext]
        /\ currentModelTimestamp = readTs[whisperContext]

\* With no emission due, what the running call has read is what the settings
\* say now; if none runs, that is what the engine was initialised with.
CurrentInv ==
    pending = 0 =>
        /\ \A c \in Calls : Active(c) =>
             /\ callStep[c] # "readPath" => readPath[c] = path
             /\ callStep[c] \notin {"readPath", "readTimestamp"} => readTs[c] = timestamp
        /\ isInitialized /\ (\A c \in Calls : ~Active(c)) =>
             currentModelPath = path /\ currentModelTimestamp = timestamp

SerialInv == OneAtATime /\ FieldInv /\ MemoryInv /\ ReadyInv /\ CurrentInv

LEMMA SerialInit == Init => SerialInv
  <1> SUFFICES ASSUME Init PROVE SerialInv
    OBVIOUS
  <1>1. \A c \in Calls : callStep[c] = "idle" /\ ptr[c] = "absent" /\ 1..Len(queue[c]) = {}
    BY DEF Init
  <1>2. OneAtATime /\ CurrentInv /\ ReadyInv
    BY <1>1 DEF Init, OneAtATime, Active, CurrentInv, ReadyInv
  <1>3. FieldInv /\ MemoryInv
    BY <1>1 DEF Init, FieldInv, MemoryInv
  <1> QED
    BY <1>2, <1>3 DEF SerialInv

\* While a call runs every other call stands where it stood.
LEMMA CallAlone ==
    ASSUME TypeOK, OneAtATime, NEW c \in Calls, Active(c) \/ \A d \in Calls : ~Active(d),
           callStep' = [callStep EXCEPT ![c] = callStep'[c]]
    PROVE  /\ OneAtATime'
           /\ \A d \in Calls : d # c => /\ callStep'[d] = callStep[d]
                                        /\ callStep[d] \in {"idle", "returned", "failed"}
  BY DEF TypeOK, OneAtATime, Active

\* The steps that leave the fields, the calls and the native memory alone, but
\* may take a task that frees nothing off a queue, or add one.
LEMMA AsideSerial ==
    ASSUME IInv, SerialInv, UNCHANGED <<fieldVars, callVars, ptr>>,
           pending' = 0 => UNCHANGED <<pending, path, timestamp>>,
           \A x \in Calls : \A i \in 1..Len(queue'[x]) :
             queue'[x][i].kind = "release" =>
                \E k \in 1..Len(queue[x]) : queue[x][k] = queue'[x][i]
    PROVE  SerialInv'
  <1> USE DEF SerialInv, fieldVars, callVars
  <1>1. OneAtATime'
    BY DEF OneAtATime, Active
  <1>2. FieldInv'
    BY DEF FieldInv
  <1>3. MemoryInv'
    BY DEF MemoryInv
  <1>4. ReadyInv'
    BY DEF ReadyInv, Replacing
  <1>5. CurrentInv'
    BY DEF CurrentInv, Active
  <1> QED
    BY <1>1, <1>2, <1>3, <1>4, <1>5

LEMMA SettingsSerial ==
    ASSUME IInv, SerialInv, SpoilImport \/ \E p \in Paths : EditSettings(p)
    PROVE  SerialInv'
  <1>1. UNCHANGED <<fieldVars, callVars, ptr, queue>>
    BY DEF SpoilImport, EditSettings, contextVars
  <1>2. pending' = 0 => UNCHANGED <<pending, path, timestamp>>
    <2>1. CASE SpoilImport
      BY <2>1 DEF SpoilImport
    <2>2. ASSUME NEW p \in Paths, EditSettings(p) PROVE pending' # 0
      BY <2>2 DEF EditSettings, IInv, TypeOK
    <2> QED
      BY <2>1, <2>2
  <1> QED
    BY <1>1, <1>2, AsideSerial

\* The steps of a call up to its comparison with the fields.
LEMMA ReadingSerial ==
    ASSUME IInv, SerialInv, ~Overlap, NEW c \in Calls,
           \/ Initialize(c) \/ ReadPath(c) \/ ReadTimestamp(c) \/ ResetPath(c)
           \/ AlreadyInitialized(c)
    PROVE  SerialInv'
  <1> USE DEF SerialInv
  <1>a. TypeOK /\ None \notin Calls /\ whisperContext \in Calls \cup {None}
    BY EngineAssumption DEF IInv, TypeOK
  <1>b. /\ callStep' = [callStep EXCEPT ![c] = callStep'[c]]
        /\ callStep[c] \in {"idle", "readPath", "readTimestamp", "resetPath", "check"}
        /\ callStep'[c] \in {"readPath", "readTimestamp", "resetPath", "check", "returned"}
        /\ Active(c) \/ \A d \in Calls : ~Active(d)
    BY <1>a DEF Initialize, ReadPath, ReadTimestamp, ResetPath, AlreadyInitialized, GoTo,
       Active, TypeOK
  <1>c. /\ UNCHANGED <<fieldVars, contextVars>>
        /\ \A d \in Calls : d # c => readPath'[d] = readPath[d] /\ readTs'[d] = readTs[d]
    BY <1>a DEF Initialize, ReadPath, ReadTimestamp, ResetPath, AlreadyInitialized, TypeOK
  <1>d. /\ OneAtATime'
        /\ \A d \in Calls : d # c => /\ callStep'[d] = callStep[d]
                                     /\ callStep[d] \in {"idle", "returned", "failed"}
    BY <1>a, <1>b, CallAlone
  <1>e. whisperContext # c
    BY <1>a, <1>b DEF FieldInv
  <1>1. FieldInv'
    BY <1>a, <1>b, <1>c, <1>d DEF FieldInv, fieldVars, contextVars
  <1>2. MemoryInv'
    BY <1>b, <1>c, <1>d DEF MemoryInv, fieldVars, contextVars
  <1>3. ReadyInv'
    <2>1. \A d \in Calls : ~Replacing(d)
      BY <1>b, <1>d DEF Replacing
    <2> QED
      BY <1>a, <1>c, <1>e, <2>1 DEF ReadyInv, fieldVars, contextVars, TypeOK
  <1>4. CurrentInv'
    <2> SUFFICES ASSUME pending' = 0
                 PROVE  /\ Active(c)' =>
                             /\ callStep'[c] # "readPath" => readPath'[c] = path'
                             /\ callStep'[c] \notin {"readPath", "readTimestamp"} =>
                                   readTs'[c] = timestamp'
                        /\ isInitialized' /\ ~Active(c)' =>
                             currentModelPath' = path' /\ currentModelTimestamp' = timestamp'
      BY <1>d DEF CurrentInv, Active
    <2>1. CASE Initialize(c)
      BY <1>a, <2>1 DEF Initialize, GoTo, Active, TypeOK
    <2>2. CASE ReadPath(c)
      BY <1>a, <2>2 DEF ReadPath, GoTo, Active, TypeOK, settingsVars
    <2>3. CASE ReadTimestamp(c)
      BY <1>a, <2>3 DEF ReadTimestamp, GoTo, Active, TypeOK, settingsVars, CurrentInv
    <2>4. CASE ResetPath(c)
      <3>1. pending' # 0
        BY <1>a, <2>4 DEF ResetPath, TypeOK
      <3> QED
        BY <3>1
    <2>5. CASE AlreadyInitialized(c)
      BY <1>a, <2>5 DEF AlreadyInitialized, UpToDate, GoTo, Active, TypeOK, settingsVars,
         fieldVars, CurrentInv
    <2> QED
      BY <2>1, <2>2, <2>3, <2>4, <2>5
  <1> QED
    BY <1>d, <1>1, <1>2, <1>3, <1>4

\* A call that fails, or is cancelled.
LEMMA FailedSerial ==
    ASSUME IInv, SerialInv, NEW c \in Calls,
           ModelMissing(c) \/ CreateFails(c) \/ CallCancelled(c)
    PROVE  SerialInv'
  <1> USE DEF SerialInv
  <1>a. TypeOK /\ whisperContext \in Calls \cup {None}
    BY DEF IInv, TypeOK
  <1>b. /\ callStep[c] \in {"check", "create", "readPath", "readTimestamp", "resetPath",
                            "forget"}
        /\ Failed(c) /\ Active(c)
    BY DEF ModelMissing, CreateFails, CallCancelled, Active
  <1>c. /\ callStep' = [callStep EXCEPT ![c] = callStep'[c]] /\ callStep'[c] = "failed"
        /\ ~isInitialized'
        /\ UNCHANGED <<settingsVars, whisperContext, readPath, readTs, contextVars>>
    BY <1>a, <1>b DEF Failed, GoTo, TypeOK
  <1>d. /\ OneAtATime'
        /\ \A d \in Calls : d # c => /\ callStep'[d] = callStep[d]
                                     /\ callStep[d] \in {"idle", "returned", "failed"}
    BY <1>a, <1>b, <1>c, CallAlone
  <1>1. FieldInv'
    BY <1>a, <1>b, <1>c, <1>d DEF FieldInv, contextVars
  <1>2. MemoryInv'
    BY <1>b, <1>c, <1>d DEF MemoryInv, contextVars
  <1>3. ReadyInv'
    BY <1>c DEF ReadyInv
  <1>4. CurrentInv'
    BY <1>c, <1>d DEF CurrentInv, Active
  <1> QED
    BY <1>d, <1>1, <1>2, <1>3, <1>4

\* The steps of a call that replaces the context.
LEMMA ReplacingSerial ==
    ASSUME IInv, SerialInv, NEW c \in Calls,
           \/ ReleaseOld(c) \/ NothingToRelease(c) \/ ForgetOld(c) \/ CreateContext(c)
           \/ PublishContext(c) \/ ConfirmContext(c)
    PROVE  SerialInv'
  <1> USE DEF SerialInv
  <1>a. TypeOK /\ QueueInv /\ None \notin Calls /\ whisperContext \in Calls \cup {None}
    BY EngineAssumption DEF IInv, TypeOK
  <1>b. /\ callStep' = [callStep EXCEPT ![c] = callStep'[c]]
        /\ \/ callStep[c] = "check" /\ callStep'[c] \in {"releasing", "create"}
           \/ callStep[c] = "forget" /\ callStep'[c] = "create"
           \/ callStep[c] = "create" /\ callStep'[c] = "publish"
           \/ callStep[c] = "publish" /\ callStep'[c] = "confirm"
           \/ callStep[c] = "confirm" /\ callStep'[c] = "returned"
        /\ UNCHANGED <<settingsVars, readPath, readTs>>
    BY <1>a DEF ReleaseOld, NothingToRelease, ForgetOld, CreateContext, PublishContext,
       ConfirmContext, GoTo, TypeOK, callVars
  <1>c. Active(c) /\ callStep[c] # "releasing"
    BY <1>b DEF Active
  <1>d. /\ OneAtATime'
        /\ \A d \in Calls : d # c => /\ callStep'[d] = callStep[d]
                                     /\ callStep[d] \in {"idle", "returned", "failed"}
    BY <1>a, <1>b, <1>c, CallAlone
  \* No release is queued: the call that waits for it would be a second one.
  <1>e. \A x \in Calls : \A i \in 1..Len(queue[x]) : queue[x][i].kind # "release"
    <2>1. ASSUME NEW x \in Calls, NEW i \in 1..Len(queue[x]), queue[x][i].kind = "release"
          PROVE  FALSE
      <3>1. queue[x][i] \in Task
        BY <1>a DEF TypeOK
      <3>2. queue[x][i].who \in Calls /\ callStep[queue[x][i].who] = "releasing"
        BY <1>a, <2>1, <3>1 DEF Task, QueueInv
      <3> QED
        BY <1>c, <1>d, <3>2
    <2> QED
      BY <2>1
  <1>1. FieldInv'
    <2>1. CASE ReleaseOld(c)
      <3> DEFINE t == [kind |-> "release", who |-> c]
      <3>1. /\ whisperContext \in Calls /\ t \in Task
            /\ queue'[whisperContext] = Append(queue[whisperContext], t)
            /\ \A x \in Calls : x # whisperContext => queue'[x] = queue[x]
            /\ UNCHANGED whisperContext
        BY <1>a, <2>1 DEF ReleaseOld, TypeOK, Task, fieldVars
      <3>2. callStep'[whisperContext] \in {"confirm", "returned"}
        <4>1. whisperContext # c
          BY <1>b, <2>1, <3>1 DEF FieldInv, ReleaseOld
        <4> QED
          BY <1>a, <1>d, <3>1, <4>1 DEF FieldInv
      <3> QED
        BY <1>e, <3>1, <3>2 DEF FieldInv
    <2>2. CASE ~ReleaseOld(c)
      <3>1. UNCHANGED queue /\ whisperContext' \in {whisperContext, None, c}
        BY <2>2 DEF NothingToRelease, ForgetOld, CreateContext, PublishContext,
           ConfirmContext, contextVars, fieldVars
      <3>2. whisperContext' = c => callStep'[c] \in {"confirm", "returned"}
        BY <1>a, <1>b, <2>2 DEF FieldInv, NothingToRelease, ForgetOld, CreateContext,
           PublishContext, ConfirmContext, fieldVars
      <3>3. whisperContext' # None => callStep'[whisperContext'] \in {"confirm", "returned"}
        BY <1>a, <1>d, <3>1, <3>2 DEF FieldInv, TypeOK
      <3> QED
        BY <1>e, <3>1, <3>3 DEF FieldInv
    <2> QED
      BY <2>1, <2>2
  <1>2. MemoryInv'
    <2> USE <1>a, <1>b, <1>d
    <2>1. CASE ReleaseOld(c)
      BY <2>1 DEF ReleaseOld, GoTo, MemoryInv, TypeOK, fieldVars
    <2>2. CASE NothingToRelease(c)
      BY <2>2 DEF NothingToRelease, GoTo, MemoryInv, TypeOK, fieldVars, contextVars
    <2>3. CASE ForgetOld(c)
      BY <2>3 DEF ForgetOld, GoTo, MemoryInv, TypeOK, contextVars
    <2>4. CASE CreateContext(c)
      <3>1. /\ callStep[c] = "create" /\ callStep'[c] = "publish" /\ ptr'[c] = "live"
            /\ \A d \in Calls : d # c => ptr'[d] = ptr[d]
            /\ UNCHANGED whisperContext
        BY <2>4 DEF CreateContext, GoTo, TypeOK, fieldVars
      <3>2. whisperContext' = None
        BY <3>1 DEF MemoryInv
      <3> QED
        BY <3>1, <3>2 DEF MemoryInv
    <2>5. CASE PublishContext(c)
      <3>1. /\ callStep[c] = "publish" /\ callStep'[c] = "confirm" /\ whisperContext' = c
            /\ UNCHANGED ptr
        BY <2>5 DEF PublishContext, GoTo, TypeOK, contextVars
      <3>2. whisperContext = None /\ ptr[c] = "live"
        BY <3>1 DEF MemoryInv
      <3>3. \A d \in Calls : ptr[d] = "live" => d = c
        BY <3>1, <3>2 DEF MemoryInv
      <3> QED
        BY <3>1, <3>2, <3>3 DEF MemoryInv
    <2>6. CASE ConfirmContext(c)
      BY <2>6 DEF ConfirmContext, GoTo, MemoryInv, TypeOK, contextVars
    <2> QED
      BY <2>1, <2>2, <2>3, <2>4, <2>5, <2>6
  <1>3. ReadyInv'
    <2>1. CASE callStep'[c] # "returned"
      <3>1. Replacing(c)'
        BY <1>b, <2>1 DEF Replacing
      <3> QED
        BY <3>1 DEF ReadyInv
    <2>2. CASE callStep'[c] = "returned"
      <3>1. ConfirmContext(c) /\ whisperContext = c /\ ptr[c] = "live"
        BY <1>a, <1>b, <2>2 DEF ReleaseOld, NothingToRelease, ForgetOld, CreateContext,
           PublishContext, GoTo, TypeOK, MemoryInv
      <3> QED
        BY <1>a, <3>1 DEF ConfirmContext, ReadyInv, contextVars
    <2> QED
      BY <2>1, <2>2
  <1>4. CurrentInv'
    <2> SUFFICES ASSUME pending' = 0
                 PROVE  /\ Active(c)' => /\ readPath'[c] = path'
                                         /\ readTs'[c] = timestamp'
                        /\ isInitialized' /\ ~Active(c)' =>
                             currentModelPath' = path' /\ currentModelTimestamp' = timestamp'
      BY <1>d DEF CurrentInv, Active
    <2>1. readPath[c] = path /\ readTs[c] = timestamp /\ UNCHANGED <<path, timestamp>>
      BY <1>b, <1>c DEF CurrentInv, settingsVars
    <2>2. CASE callStep'[c] # "returned"
      BY <1>b, <2>1, <2>2 DEF Active
    <2>3. CASE callStep'[c] = "returned"
      <3>1. ConfirmContext(c)
        BY <1>a, <1>b, <2>3 DEF ReleaseOld, NothingToRelease, ForgetOld, CreateContext,
           PublishContext, GoTo, TypeOK
      <3> QED
        BY <1>b, <2>1, <2>3, <3>1 DEF ConfirmContext, Active
    <2> QED
      BY <2>2, <2>3
  <1> QED
    BY <1>d, <1>1, <1>2, <1>3, <1>4

\* The executor frees the old context, and the call that waited goes on.
LEMMA FreeSerial ==
    ASSUME IInv, SerialInv, NEW x \in Calls, FreeContext(x)
    PROVE  SerialInv'
  <1> USE DEF SerialInv
  <1> DEFINE c == Head(queue[x]).who
  <1>a. TypeOK /\ QueueInv /\ None \notin Calls /\ whisperContext \in Calls \cup {None}
    BY EngineAssumption DEF IInv, TypeOK
  <1>b. /\ queue[x] # <<>> /\ 1 \in 1..Len(queue[x])
        /\ queue[x][1] \in Task /\ queue[x][1] = Head(queue[x])
        /\ queue[x][1].kind = "release"
    BY <1>a, TailFacts DEF FreeContext, TypeOK
  <1>c. c \in Calls /\ callStep[c] = "releasing" /\ x = whisperContext /\ Active(c)
    BY <1>a, <1>b DEF Task, QueueInv, FieldInv, Active
  <1>d. /\ queue'[x] = Tail(queue[x]) /\ \A y \in Calls : y # x => queue'[y] = queue[y]
        /\ ptr'[x] # "live" /\ \A y \in Calls : y # x => ptr'[y] = ptr[y]
        /\ callStep' = [callStep EXCEPT ![c] = "forget"]
        /\ UNCHANGED <<settingsVars, fieldVars, readPath, readTs>>
    BY <1>a DEF FreeContext, GoTo, TypeOK
  <1> HIDE DEF c
  <1>e. callStep'[c] = "forget" /\ callStep' = [callStep EXCEPT ![c] = callStep'[c]]
    BY <1>a, <1>c, <1>d DEF TypeOK
  <1>f. /\ OneAtATime'
        /\ \A d \in Calls : d # c => /\ callStep'[d] = callStep[d]
                                     /\ callStep[d] \in {"idle", "returned", "failed"}
    BY <1>a, <1>c, <1>e, CallAlone
  <1>1. FieldInv'
    <2>1. \A y \in Calls : \A i \in 1..Len(queue'[y]) :
             \E k \in 1..Len(queue[y]) : queue'[y][i] = queue[y][k]
      <3>1. \A i \in 1..Len(queue'[x]) : \E k \in 1..Len(queue[x]) : queue'[x][i] = queue[x][k]
        <4>1. queue[x] \in Seq(Task)
          BY <1>a DEF TypeOK
        <4>2. \A i \in 1..Len(Tail(queue[x])) :
                 i + 1 \in 1..Len(queue[x]) /\ Tail(queue[x])[i] = queue[x][i+1]
          BY <1>b, <4>1, TailFacts
        <4> QED
          BY <1>d, <4>2
      <3>2. ASSUME NEW y \in Calls, y # x, NEW i \in 1..Len(queue'[y])
            PROVE  \E k \in 1..Len(queue[y]) : queue'[y][i] = queue[y][k]
        <4>1. queue'[y] = queue[y]
          BY <1>d, <3>2
        <4> QED
          BY <4>1
      <3> QED
        BY <3>1, <3>2
    <2>2. callStep'[whisperContext] \in {"confirm", "returned"}
      BY <1>a, <1>c, <1>f DEF FieldInv
    <2> QED
      <3>1. UNCHANGED whisperContext
        BY <1>d DEF fieldVars
      <3>2. \A y \in Calls : \A i \in 1..Len(queue'[y]) :
               queue'[y][i].kind = "release" => y = whisperContext
        BY <2>1 DEF FieldInv
      <3> QED
        BY <2>2, <3>1, <3>2 DEF FieldInv
  <1>2. MemoryInv'
    BY <1>a, <1>c, <1>d, <1>e, <1>f DEF MemoryInv, fieldVars
  <1>3. ReadyInv'
    BY <1>c, <1>e DEF ReadyInv, Replacing
  <1>4. CurrentInv'
    BY <1>c, <1>d, <1>e, <1>f DEF CurrentInv, Active, settingsVars, fieldVars
  <1> QED
    BY <1>f, <1>1, <1>2, <1>3, <1>4

\* The executor's other steps and the transcriptions.
LEMMA TasksSerial ==
    ASSUME IInv, SerialInv, NEW x \in Calls,
           \/ TranscribeFreed(x) \/ FullTranscribe(x) \/ TranscribeReturns(x)
           \/ \E j \in Jobs : NoContext(j) \/ TranscribeData(j)
    PROVE  SerialInv'
  <1>a. TypeOK
    BY DEF IInv
  <1>1. CASE TranscribeFreed(x) \/ FullTranscribe(x)
    <2>1. /\ UNCHANGED <<fieldVars, callVars, ptr, settingsVars>>
          /\ queue[x] # <<>> /\ queue'[x] = Tail(queue[x])
          /\ \A y \in Calls : y # x => queue'[y] = queue[y]
      BY <1>a, <1>1 DEF TranscribeFreed, FullTranscribe, TypeOK
    <2>2. \A i \in 1..Len(queue'[x]) : \E k \in 1..Len(queue[x]) : queue[x][k] = queue'[x][i]
      <3>1. queue[x] \in Seq(Task)
        BY <1>a DEF TypeOK
      <3>2. \A i \in 1..Len(Tail(queue[x])) :
               i + 1 \in 1..Len(queue[x]) /\ Tail(queue[x])[i] = queue[x][i+1]
        BY <2>1, <3>1, TailFacts
      <3> QED
        BY <2>1, <3>2
    <2>3. \A y \in Calls : \A i \in 1..Len(queue'[y]) :
             \E k \in 1..Len(queue[y]) : queue[y][k] = queue'[y][i]
      BY <2>1, <2>2
    <2>4. UNCHANGED <<pending, path, timestamp>>
      BY <2>1 DEF settingsVars
    <2> QED
      BY <2>1, <2>3, <2>4, AsideSerial
  <1>2. CASE TranscribeReturns(x) \/ \E j \in Jobs : NoContext(j)
    <2>1. UNCHANGED <<fieldVars, callVars, ptr, queue, pending, path, timestamp>>
      BY <1>2 DEF TranscribeReturns, NoContext, contextVars, settingsVars
    <2> QED
      BY <2>1, AsideSerial
  <1>3. ASSUME NEW j \in Jobs, TranscribeData(j) PROVE SerialInv'
    <2> DEFINE t == [kind |-> "transcribe", who |-> j]
    <2>1. /\ UNCHANGED <<fieldVars, callVars, ptr, pending, path, timestamp>>
          /\ whisperContext \in Calls /\ t \in Task /\ t.kind # "release"
          /\ queue'[whisperContext] = Append(queue[whisperContext], t)
          /\ \A y \in Calls : y # whisperContext => queue'[y] = queue[y]
      BY <1>a, <1>3 DEF TranscribeData, TypeOK, settingsVars, Task
    <2> HIDE DEF t
    <2>2. \A i \in 1..Len(queue'[whisperContext]) :
             \/ \E k \in 1..Len(queue[whisperContext]) :
                   queue[whisperContext][k] = queue'[whisperContext][i]
             \/ queue'[whisperContext][i] = t
      <3>1. queue[whisperContext] \in Seq(Task)
        BY <1>a, <2>1 DEF TypeOK
      <3> QED
        BY <2>1, <3>1, AppendFacts
    <2>3. \A y \in Calls : \A i \in 1..Len(queue'[y]) : queue'[y][i].kind = "release" =>
             \E k \in 1..Len(queue[y]) : queue[y][k] = queue'[y][i]
      BY <2>1, <2>2
    <2> QED
      BY <2>1, <2>3, AsideSerial
  <1> QED
    BY <1>1, <1>2, <1>3

LEMMA FinalizeSerial ==
    ASSUME IInv, SerialInv, NEW x \in Calls, Finalize(x)
    PROVE  SerialInv'
  <1> USE DEF SerialInv
  <1>a. /\ TypeOK /\ whisperContext # x /\ callStep[x] \notin {"publish", "confirm"}
        /\ UNCHANGED <<settingsVars, fieldVars, callVars, queue>>
        /\ ptr'[x] = "freed" /\ \A y \in Calls : y # x => ptr'[y] = ptr[y]
    BY DEF Finalize, IInv, TypeOK
  <1>1. OneAtATime' /\ FieldInv' /\ CurrentInv'
    BY <1>a DEF OneAtATime, FieldInv, CurrentInv, Active, settingsVars, fieldVars, callVars
  <1>2. MemoryInv'
    BY <1>a DEF MemoryInv, fieldVars, callVars, TypeOK
  <1>3. ReadyInv'
    BY <1>a DEF ReadyInv, Replacing, fieldVars, callVars, TypeOK
  <1> QED
    BY <1>1, <1>2, <1>3

LEMMA SerialNext == ~Overlap /\ IInv /\ SerialInv /\ [Next]_vars => SerialInv'
  <1> SUFFICES ASSUME ~Overlap, IInv, SerialInv, [Next]_vars PROVE SerialInv'
    OBVIOUS
  <1>1. ASSUME NEW c \in Calls, Call(c) PROVE SerialInv'
    BY <1>1, ReadingSerial, FailedSerial, ReplacingSerial DEF Call
  <1>2. ASSUME NEW x \in Calls, Executor(x) PROVE SerialInv'
    BY <1>2, FreeSerial, TasksSerial DEF Executor
  <1>3. ASSUME NEW j \in Jobs, Job(j) PROVE SerialInv'
    <2>1. CASE Calls = {}
      <3>1. UNCHANGED <<fieldVars, callVars, ptr, pending, path, timestamp>>
        BY <1>3 DEF Job, NoContext, TranscribeData, contextVars, settingsVars
      <3> QED
        BY <2>1, <3>1, AsideSerial
    <2>2. CASE Calls # {}
      BY <1>3, <2>2, TasksSerial DEF Job
    <2> QED
      BY <2>1, <2>2
  <1>4. CASE UNCHANGED vars
    <2>1. UNCHANGED <<fieldVars, callVars, ptr, queue, pending, path, timestamp>>
      BY <1>4 DEF vars, contextVars, settingsVars
    <2> QED
      BY <2>1, AsideSerial
  <1> QED
    BY <1>1, <1>2, <1>3, <1>4, SettingsSerial, FinalizeSerial DEF Next

LEMMA SerialInvariance ==
    ASSUME ~Overlap
    PROVE  Spec => [](IInv /\ SerialInv)
  <1>1. Init => IInv /\ SerialInv
    BY InitInv, SerialInit
  <1>2. IInv /\ SerialInv /\ [Next]_vars => IInv' /\ SerialInv'
    BY NextInv, SerialNext
  <1> QED
    BY <1>1, <1>2, PTL DEF Spec

\* When calls do not overlap, an engine at rest that says it is initialised
\* holds a context it can transcribe with, cancelled calls or not.
THEOREM ReadyWhenSerial == ASSUME ~Overlap PROVE Spec => []ReadyAtRest
  <1>1. IInv /\ SerialInv => ReadyAtRest
    BY DEF SerialInv, ReadyInv, ReadyAtRest, AtRest, Active, Replacing
  <1> QED
    BY <1>1, SerialInvariance, PTL

\* ... made from the latest version of the model the settings name ...
THEOREM CurrentWhenSerial == ASSUME ~Overlap PROVE Spec => []CurrentAtRest
  <1>1. IInv /\ SerialInv => CurrentAtRest
    BY DEF SerialInv, ReadyInv, CurrentInv, CurrentAtRest, AtRest, Active, Replacing
  <1> QED
    BY <1>1, SerialInvariance, PTL

\* ... and no other context is left in memory.
THEOREM OldReleasedWhenSerial == ASSUME ~Overlap PROVE Spec => []OldReleasedAtRest
  <1>1. IInv /\ SerialInv => OldReleasedAtRest
    BY DEF SerialInv, MemoryInv, OldReleasedAtRest, AtRest, Active
  <1> QED
    BY <1>1, SerialInvariance, PTL
=============================================================================
