------------------------ MODULE WritebackOutbox_proofs ------------------------
(* What the outbox guarantees for any number of results, engagements, worker   *)
(* tasks and attempts.                                                         *)
EXTENDS WritebackOutbox, TLAPS

\* What a worker knows of its row.  The claim token is the hinge: while the row
\* still carries it, nobody else has touched the row since the claim.
JobOK(w) ==
    /\ job[w].at = "idle" => job[w].r = None
    /\ job[w].at # "idle" => job[w].r \in Results /\ row[job[w].r] # "absent"
    /\ job[w].at = "answered" /\ job[w].code \in {"ok", "has_result"}
          => Answered(EngOf[job[w].r])
    /\ job[w].at # "idle" /\ token[job[w].r] = w
          => /\ job[w].n = attempts[job[w].r]
             /\ \/ row[job[w].r] = "PROCESSING"
                \/ row[job[w].r] = "DELIVERED" /\ job[w].at = "failing"

RowOK(r) ==
    /\ row[r] \in {"absent", "PENDING"} => token[r] = None
    /\ r \in stored \cup late => row[r] # "absent"
    /\ row[r] = "DELIVERED" => Answered(EngOf[r])

JobsOK == \A w \in Workers : JobOK(w)
RowsOK == \A r \in Results : RowOK(r)

IInv == TypeOK /\ JobsOK /\ RowsOK

-----------------------------------------------------------------------------
LEMMA InitInv == Init => IInv
<1> SUFFICES ASSUME Init PROVE IInv
  OBVIOUS
<1> USE OutboxAssumption DEF Init, NoJob
<1>1. TypeOK BY DEF TypeOK, Jobs, Final
<1>2. JobsOK BY DEF JobsOK, JobOK
<1>3. RowsOK BY DEF RowsOK, RowOK
<1> QED BY <1>1, <1>2, <1>3 DEF IInv

\* Every step keeps the types; the attempt count stays below its limit because
\* the count a worker holds is current.
LEMMA NextType == IInv /\ [Next]_vars => TypeOK'
<1> SUFFICES ASSUME IInv, [Next]_vars PROVE TypeOK'
  OBVIOUS
<1> USE OutboxAssumption DEF IInv, TypeOK, Jobs, JobsOK, JobOK, NoJob, Final, rowVars, shopVars
<1>1. ASSUME NEW r \in Results, Enqueue(r) PROVE TypeOK' BY <1>1 DEF Enqueue
<1>2. ASSUME NEW r \in Results, Ripen(r) PROVE TypeOK' BY <1>2 DEF Ripen
<1>3. ASSUME NEW r \in Results, LateArrival(r) PROVE TypeOK' BY <1>3 DEF LateArrival
<1>4. ASSUME NEW w \in Workers, Work(w) PROVE TypeOK'
  <2>1. CASE Post(w) BY <2>1 DEF Post
  <2>2. CASE Serve(w) BY <2>2 DEF Serve, Reply
  <2>3. CASE Timeout(w)
    <3>1. job' = [job EXCEPT ![w] = [job[w] EXCEPT !.at = "answered", !.code = "transient"]]
      BY <2>3 DEF Timeout
    <3>2. [job[w] EXCEPT !.at = "answered", !.code = "transient"] \in Jobs
      <4>1. job[w] \in Jobs OBVIOUS
      <4> QED BY <4>1
    <3>3. job' \in [Workers -> Jobs] BY <3>1, <3>2
    <3>4. late' \subseteq Results BY <2>3 DEF Timeout
    <3>5. UNCHANGED <<rowVars, alive, stored>> BY <2>3 DEF Timeout
    <3> QED BY <3>3, <3>4, <3>5
  <2>4. CASE MarkSuccess(w) BY <2>4 DEF MarkSuccess, Settled, Holds
  <2>5. CASE MarkDeadLetter(w) BY <2>5 DEF MarkDeadLetter, Holds
  <2>6. CASE HandleTransient(w)
    <3> DEFINE r == job[w].r
    <3>1. r \in Results BY <2>6 DEF HandleTransient
    <3>2. job' \in [Workers -> Jobs] /\ UNCHANGED <<alive, shopVars>>
      BY <2>6 DEF HandleTransient
    <3>3. CASE UNCHANGED rowVars BY <3>2, <3>3
    <3>4. CASE LastAttempt(w) /\ ~UNCHANGED rowVars
      BY <2>6, <3>1, <3>2, <3>4 DEF HandleTransient
    <3>5. CASE ~LastAttempt(w) /\ ~UNCHANGED rowVars
      <4>1. token[r] = w BY <2>6, <3>5 DEF HandleTransient, Holds
      <4>2. job[w].n = attempts[r] BY <2>6, <4>1 DEF HandleTransient
      <4>3. attempts[r] + 1 \in 0..(MaxAttempts - 1) BY <3>1, <3>5, <4>2 DEF LastAttempt
      <4>4. attempts' \in [Results -> 0..(MaxAttempts - 1)]
        BY <2>6, <3>1, <3>5, <4>3 DEF HandleTransient
      <4>5. /\ row' \in [Results -> {"absent", "PENDING", "PROCESSING"} \cup Final]
            /\ token' \in [Results -> Workers \cup {None}]
            /\ ripe' \in [Results -> BOOLEAN]
        <5>1. /\ row' = [row EXCEPT ![r] = "PENDING"]
              /\ token' = [token EXCEPT ![r] = None]
              /\ ripe' = [ripe EXCEPT ![r] = FALSE]
          BY <2>6, <3>5 DEF HandleTransient
        <5> QED BY <5>1
      <4> QED BY <3>2, <4>4, <4>5
    <3> QED BY <3>3, <3>4, <3>5
  <2>7. CASE MarkSuccessRaises(w) BY <2>7 DEF MarkSuccessRaises, Settled, Holds
  <2>8. CASE MarkRaises(w) BY <2>8 DEF MarkRaises
  <2> QED BY <1>4, <2>1, <2>2, <2>3, <2>4, <2>5, <2>6, <2>7, <2>8 DEF Work, Mark
<1>5. ASSUME NEW w \in Workers, Start(w) PROVE TypeOK' BY <1>5 DEF Start
<1>6. ASSUME NEW w \in Workers, NEW r \in Results, Claim(w, r) PROVE TypeOK'
  BY <1>6 DEF Claim, Claimable
<1>7. ASSUME NEW w \in Workers, NEW how \in {"stopped", "crashed"}, Halt(w, how)
      PROVE TypeOK'
  BY <1>7 DEF Halt
<1>8. CASE UNCHANGED vars BY <1>8 DEF vars
<1> QED BY <1>1, <1>2, <1>3, <1>4, <1>5, <1>6, <1>7, <1>8 DEF Next

\* No step invalidates what a worker knows: the others change a row only under
\* their own token.
LEMMA NextJobs == IInv /\ [Next]_vars => JobsOK'
<1> SUFFICES ASSUME IInv, [Next]_vars, NEW v \in Workers PROVE JobOK(v)'
  BY DEF JobsOK
<1> USE OutboxAssumption
    DEF IInv, TypeOK, Jobs, JobsOK, JobOK, RowsOK, RowOK, NoJob, Final, Answered, rowVars,
        shopVars
<1>1. ASSUME NEW r \in Results, Enqueue(r) PROVE JobOK(v)' BY <1>1 DEF Enqueue
<1>2. ASSUME NEW r \in Results, Ripen(r) PROVE JobOK(v)' BY <1>2 DEF Ripen
<1>3. ASSUME NEW r \in Results, LateArrival(r) PROVE JobOK(v)' BY <1>3 DEF LateArrival
<1>4. ASSUME NEW w \in Workers, Work(w) PROVE JobOK(v)'
  <2>1. CASE Post(w) BY <2>1 DEF Post
  <2>2. CASE Serve(w) BY <2>2 DEF Serve, Reply
  <2>3. CASE Timeout(w) BY <2>3 DEF Timeout
  <2>4. CASE MarkSuccess(w) BY <2>4 DEF MarkSuccess, Settled, Holds
  <2>5. CASE MarkDeadLetter(w) BY <2>5 DEF MarkDeadLetter, Holds
  <2>6. CASE HandleTransient(w) BY <2>6 DEF HandleTransient, Holds, LastAttempt
  <2>7. CASE MarkSuccessRaises(w) BY <2>7 DEF MarkSuccessRaises, Settled, Holds
  <2>8. CASE MarkRaises(w) BY <2>8 DEF MarkRaises
  <2> QED BY <1>4, <2>1, <2>2, <2>3, <2>4, <2>5, <2>6, <2>7, <2>8 DEF Work, Mark
<1>5. ASSUME NEW w \in Workers, Start(w) PROVE JobOK(v)' BY <1>5 DEF Start
<1>6. ASSUME NEW w \in Workers, NEW r \in Results, Claim(w, r) PROVE JobOK(v)'
  BY <1>6 DEF Claim, Claimable
<1>7. ASSUME NEW w \in Workers, NEW how \in {"stopped", "crashed"}, Halt(w, how)
      PROVE JobOK(v)'
  BY <1>7 DEF Halt
<1>8. CASE UNCHANGED vars BY <1>8 DEF vars
<1> QED BY <1>1, <1>2, <1>3, <1>4, <1>5, <1>6, <1>7, <1>8 DEF Next

\* No step marks a row delivered without an answer, or lets go of its token early.
LEMMA NextRows == IInv /\ [Next]_vars => RowsOK'
<1> SUFFICES ASSUME IInv, [Next]_vars, NEW s \in Results PROVE RowOK(s)'
  BY DEF RowsOK
<1> USE OutboxAssumption
    DEF IInv, TypeOK, Jobs, JobsOK, JobOK, RowsOK, RowOK, NoJob, Final, Answered, rowVars,
        shopVars
<1>1. ASSUME NEW r \in Results, Enqueue(r) PROVE RowOK(s)' BY <1>1 DEF Enqueue
<1>2. ASSUME NEW r \in Results, Ripen(r) PROVE RowOK(s)' BY <1>2 DEF Ripen
<1>3. ASSUME NEW r \in Results, LateArrival(r) PROVE RowOK(s)' BY <1>3 DEF LateArrival
<1>4. ASSUME NEW w \in Workers, Work(w) PROVE RowOK(s)'
  <2>1. CASE Post(w) BY <2>1 DEF Post
  <2>2. CASE Serve(w) BY <2>2 DEF Serve, Reply
  <2>3. CASE Timeout(w) BY <2>3 DEF Timeout
  <2>4. CASE MarkSuccess(w) BY <2>4 DEF MarkSuccess, Settled, Holds
  <2>5. CASE MarkDeadLetter(w) BY <2>5 DEF MarkDeadLetter, Holds
  <2>6. CASE HandleTransient(w) BY <2>6 DEF HandleTransient, Holds, LastAttempt
  <2>7. CASE MarkSuccessRaises(w) BY <2>7 DEF MarkSuccessRaises, Settled, Holds
  <2>8. CASE MarkRaises(w) BY <2>8 DEF MarkRaises
  <2> QED BY <1>4, <2>1, <2>2, <2>3, <2>4, <2>5, <2>6, <2>7, <2>8 DEF Work, Mark
<1>5. ASSUME NEW w \in Workers, Start(w) PROVE RowOK(s)' BY <1>5 DEF Start
<1>6. ASSUME NEW w \in Workers, NEW r \in Results, Claim(w, r) PROVE RowOK(s)'
  BY <1>6 DEF Claim, Claimable
<1>7. ASSUME NEW w \in Workers, NEW how \in {"stopped", "crashed"}, Halt(w, how)
      PROVE RowOK(s)'
  BY <1>7 DEF Halt
<1>8. CASE UNCHANGED vars BY <1>8 DEF vars
<1> QED BY <1>1, <1>2, <1>3, <1>4, <1>5, <1>6, <1>7, <1>8 DEF Next

-----------------------------------------------------------------------------
THEOREM Invariance == Spec => []IInv
<1>1. Init => IInv BY InitInv
<1>2. IInv /\ [Next]_vars => IInv' BY NextType, NextJobs, NextRows DEF IInv
<1> QED BY <1>1, <1>2, PTL DEF Spec

\* Rows and jobs hold values of their types; in particular no row is tried
\* MaxAttempts times and still open.
THEOREM TypeCorrect == Spec => []TypeOK
<1>1. IInv => TypeOK BY DEF IInv
<1> QED BY <1>1, Invariance, PTL

\* A DELIVERED row is one ShopDeck has an answer for.
THEOREM DeliveredCorrect == Spec => []DeliveredIsAnswered
<1>1. IInv => DeliveredIsAnswered BY DEF IInv, RowsOK, RowOK, DeliveredIsAnswered
<1> QED BY <1>1, Invariance, PTL

\* The count a worker holds under its token is the row's own.
THEOREM HeldCountCorrect == Spec => []HeldCountIsCurrent
<1>1. IInv => HeldCountIsCurrent
  BY OutboxAssumption DEF IInv, JobsOK, JobOK, HeldCountIsCurrent
<1> QED BY <1>1, Invariance, PTL

-----------------------------------------------------------------------------
\* A dead letter stays one, and a delivered row is only taken back by the worker
\* that delivered it.
THEOREM FinalRowsCorrect == Spec => FinalRowsAreFenced
<1> DEFINE Fenced ==
        \A r \in Results :
            /\ row[r] = "DEAD_LETTER" => row'[r] = "DEAD_LETTER"
            /\ row[r] = "DELIVERED" /\ row'[r] # "DELIVERED"
                  => Unconfirmed(r)
<1>1. IInv /\ [Next]_vars => [Fenced]_vars
  <2> SUFFICES ASSUME IInv, [Next]_vars, NEW s \in Results, row[s] \in Final,
                      row'[s] # row[s]
               PROVE row[s] = "DELIVERED" /\ Unconfirmed(s)
    BY DEF Final
  <2> USE OutboxAssumption
      DEF IInv, TypeOK, Jobs, JobsOK, JobOK, NoJob, Final, Unconfirmed, rowVars, shopVars
  <2>1. ASSUME NEW r \in Results, Enqueue(r) PROVE row[s] = "DELIVERED" /\ Unconfirmed(s) BY <2>1 DEF Enqueue
  <2>2. ASSUME NEW r \in Results, Ripen(r) PROVE row[s] = "DELIVERED" /\ Unconfirmed(s) BY <2>2 DEF Ripen
  <2>3. ASSUME NEW r \in Results, LateArrival(r) PROVE row[s] = "DELIVERED" /\ Unconfirmed(s) BY <2>3 DEF LateArrival
  <2>4. ASSUME NEW w \in Workers, Work(w) PROVE row[s] = "DELIVERED" /\ Unconfirmed(s)
    <3>1. CASE Post(w) BY <3>1 DEF Post
    <3>2. CASE Serve(w) BY <3>2 DEF Serve, Reply
    <3>3. CASE Timeout(w) BY <3>3 DEF Timeout
    <3>4. CASE MarkSuccess(w) BY <3>4 DEF MarkSuccess, Settled, Holds
    <3>5. CASE MarkDeadLetter(w) BY <3>5 DEF MarkDeadLetter, Holds
    <3>6. CASE HandleTransient(w) BY <3>6 DEF HandleTransient, Holds, LastAttempt
    <3>7. CASE MarkSuccessRaises(w) BY <3>7 DEF MarkSuccessRaises, Settled, Holds
    <3>8. CASE MarkRaises(w) BY <3>8 DEF MarkRaises
    <3> QED BY <2>4, <3>1, <3>2, <3>3, <3>4, <3>5, <3>6, <3>7, <3>8 DEF Work, Mark
  <2>5. ASSUME NEW w \in Workers, Start(w) PROVE row[s] = "DELIVERED" /\ Unconfirmed(s) BY <2>5 DEF Start
  <2>6. ASSUME NEW w \in Workers, NEW r \in Results, Claim(w, r) PROVE row[s] = "DELIVERED" /\ Unconfirmed(s)
    BY <2>6 DEF Claim, Claimable
  <2>7. ASSUME NEW w \in Workers, NEW how \in {"stopped", "crashed"}, Halt(w, how)
        PROVE row[s] = "DELIVERED" /\ Unconfirmed(s)
    BY <2>7 DEF Halt
  <2>8. CASE UNCHANGED vars BY <2>8 DEF vars
  <2> QED BY <2>1, <2>2, <2>3, <2>4, <2>5, <2>6, <2>7, <2>8 DEF Next
<1>2. Spec => [][Fenced]_vars BY <1>1, Invariance, PTL DEF Spec
<1> QED BY <1>2 DEF FinalRowsAreFenced

-----------------------------------------------------------------------------
\* Seen from DeliveryPromise, the outcomes that a step does not touch.
Outcomes == [r \in Results |-> Outcome(r)]
Answers == {EngOf[r] : r \in stored}

LEMMA Stutter ==
    (\A r \in Results : Outcome(r)' = Outcome(r)) /\ stored' = stored
        => UNCHANGED <<Outcomes, Answers>>
BY DEF Outcomes, Answers

\* One outcome changes.
LEMMA OneOutcome ==
    ASSUME NEW r \in Results, NEW o,
           \A s \in Results : Outcome(s)' = IF s = r THEN o ELSE Outcome(s)
    PROVE Outcomes' = [Outcomes EXCEPT ![r] = o]
BY DEF Outcomes

LEMMA AnswerStep ==
    ASSUME NEW r \in Results, IInv, row[r] # "absent", stored' = stored \cup {r},
           \A s \in Results : Outcome(s)' = Outcome(s)
    PROVE Promise!Next
<1>1. Outcomes[r] # "none" BY DEF Outcomes, Outcome
<1>2. Answers' = Answers \cup {EngOf[r]} BY DEF Answers
<1>3. UNCHANGED Outcomes BY DEF Outcomes
<1>4. Promise!Answer(r) BY <1>1, <1>2, <1>3 DEF Promise!Answer, Outcomes, Answers
<1> QED BY <1>4 DEF Promise!Next

LEMMA SettleStep ==
    ASSUME NEW r \in Results, stored' = stored, Outcome(r) = "open",
           NEW o \in {"delivered", "dead"}, o = "delivered" => Answered(EngOf[r]),
           \A s \in Results : Outcome(s)' = IF s = r THEN o ELSE Outcome(s)
    PROVE Promise!Next
<1>1. Outcomes' = [Outcomes EXCEPT ![r] = o] BY OneOutcome
<1>2. UNCHANGED Answers BY DEF Answers
<1>3. Outcomes[r] = "open" BY DEF Outcomes
<1>4. o = "delivered" => EngOf[r] \in Answers BY DEF Answered, Answers
<1>5. Promise!Deliver(r) \/ Promise!GiveUp(r)
  BY <1>1, <1>2, <1>3, <1>4 DEF Promise!Deliver, Promise!GiveUp, Outcomes, Answers
<1> QED BY <1>5 DEF Promise!Next

\* A worker that lets go of its row settles it if the row was delivered behind
\* its back, and changes no outcome otherwise.
LEMMA LetGo ==
    ASSUME IInv, NEW w \in Workers, job' = [job EXCEPT ![w] = NoJob],
           UNCHANGED <<row, token, stored>>
    PROVE Promise!Next \/ UNCHANGED <<Outcomes, Answers>>
<1> USE OutboxAssumption DEF IInv, TypeOK, Jobs, NoJob
<1>0. PICK r : r = job[w].r OBVIOUS
<1> USE <1>0
<1>1. ASSUME NEW s \in Results, s # r PROVE Outcome(s)' = Outcome(s)
  BY <1>1 DEF Outcome, Unconfirmed
<1>2. CASE job[w].at = "failing" /\ token[r] = w /\ row[r] = "DELIVERED"
  <2>1. r \in Results BY <1>2 DEF JobsOK, JobOK
  <2>2. Outcome(r) = "open" BY <1>2, <2>1 DEF Outcome, Unconfirmed
  <2>3. Outcome(r)' = "delivered" BY <1>2, <2>1 DEF Outcome, Unconfirmed
  <2>4. Answered(EngOf[r]) BY <1>2, <2>1 DEF RowsOK, RowOK
  <2>5. \A s \in Results : Outcome(s)' = IF s = r THEN "delivered" ELSE Outcome(s)
    BY <1>1, <2>3
  <2> QED BY <2>1, <2>2, <2>4, <2>5, SettleStep
<1>3. CASE ~(job[w].at = "failing" /\ token[r] = w /\ row[r] = "DELIVERED")
  <2>1. ASSUME NEW s \in Results PROVE Outcome(s)' = Outcome(s)
    <3>1. CASE row[s] = "DELIVERED"
      <4>1. Unconfirmed(s)' <=> Unconfirmed(s) BY <1>3, <3>1 DEF Unconfirmed
      <4> QED BY <4>1 DEF Outcome
    <3>2. CASE row[s] # "DELIVERED" BY <3>2 DEF Outcome
    <3> QED BY <3>1, <3>2
  <2> QED BY <2>1, Stutter
<1> QED BY <1>2, <1>3

\* A worker writes under its token: its row was open, whatever it is now.
LEMMA HeldIsOpen ==
    ASSUME IInv, NEW w \in Workers, job[w].at # "idle", Holds(w)
    PROVE job[w].r \in Results /\ Outcome(job[w].r) = "open"
BY DEF IInv, JobsOK, JobOK, Holds, Outcome, Unconfirmed

\* What the other rows show does not depend on the jobs of those who do not
\* fail on them.
LEMMA OthersKept ==
    ASSUME IInv, NEW w \in Workers, NEW r \in Results, NEW s \in Results, s # r,
           row'[s] = row[s], token'[s] = token[s],
           job[w].r \in {r, None}, job' \in [Workers -> Jobs], job'[w].r \in {r, None},
           \A v \in Workers \ {w} : job'[v] = job[v]
    PROVE Outcome(s)' = Outcome(s)
<1>1. Unconfirmed(s)' <=> Unconfirmed(s) BY OutboxAssumption DEF Unconfirmed
<1> QED BY <1>1 DEF Outcome

\* Each step of the outbox is a step of DeliveryPromise, or changes nothing there.
LEMMA StepRefines ==
    ASSUME IInv, IInv', [Next]_vars
    PROVE Promise!Next \/ UNCHANGED <<Outcomes, Answers>>
<1> USE OutboxAssumption DEF IInv, TypeOK, Jobs, rowVars, shopVars
<1>1. ASSUME NEW r \in Results, Enqueue(r)
      PROVE Promise!Next \/ UNCHANGED <<Outcomes, Answers>>
  <2>1. \A s \in Results : Outcome(s)' = IF s = r THEN "open" ELSE Outcome(s)
    BY <1>1 DEF Enqueue, Outcome, Unconfirmed
  <2>2. Outcomes' = [Outcomes EXCEPT ![r] = "open"] BY <2>1, OneOutcome
  <2>3. Outcomes[r] = "none" BY <1>1 DEF Enqueue, Outcomes, Outcome
  <2>4. UNCHANGED Answers BY <1>1 DEF Enqueue, Answers
  <2>5. Promise!Accept(r) BY <2>2, <2>3, <2>4 DEF Promise!Accept, Outcomes, Answers
  <2> QED BY <2>5 DEF Promise!Next
<1>2. ASSUME NEW r \in Results, Ripen(r)
      PROVE Promise!Next \/ UNCHANGED <<Outcomes, Answers>>
  BY <1>2, Stutter DEF Ripen, Outcome, Unconfirmed
<1>3. ASSUME NEW r \in Results, LateArrival(r)
      PROVE Promise!Next \/ UNCHANGED <<Outcomes, Answers>>
  <2>1. \A s \in Results : Outcome(s)' = Outcome(s)
    BY <1>3 DEF LateArrival, Outcome, Unconfirmed
  <2>2. row[r] # "absent" BY <1>3 DEF LateArrival, RowsOK, RowOK
  <2> QED BY <1>3, <2>1, <2>2, Stutter, AnswerStep DEF LateArrival
<1>4. ASSUME NEW w \in Workers, Work(w)
      PROVE Promise!Next \/ UNCHANGED <<Outcomes, Answers>>
  <2>0. PICK r : r = job[w].r OBVIOUS
  <2> USE <2>0
  <2>1. CASE Post(w) BY <2>1, Stutter DEF Post, Outcome, Unconfirmed
  <2>2. CASE Serve(w)
    <3>1. \A s \in Results : Outcome(s)' = Outcome(s)
      BY <2>2 DEF Serve, Reply, Outcome, Unconfirmed
    <3>2. r \in Results /\ row[r] # "absent" BY <2>2 DEF Serve, JobsOK, JobOK
    <3>3. stored' = stored \/ stored' = stored \cup {r} BY <2>2 DEF Serve
    <3> QED BY <3>1, <3>2, <3>3, Stutter, AnswerStep
  <2>3. CASE Timeout(w) BY <2>3, Stutter DEF Timeout, Outcome, Unconfirmed
  <2>4. CASE MarkSuccess(w)
    <3>1. CASE Holds(w)
      <4>1. r \in Results /\ Outcome(r) = "open"
        BY <2>4, <3>1, HeldIsOpen DEF MarkSuccess, Settled
      <4>2. Outcome(r)' = "delivered"
        BY <2>4, <3>1, <4>1 DEF MarkSuccess, Holds, Outcome, Unconfirmed, NoJob
      <4>3. \A s \in Results : s # r => Outcome(s)' = Outcome(s)
        BY <2>4, <4>1, OthersKept DEF MarkSuccess, NoJob
      <4>4. Answered(EngOf[r]) BY <2>4 DEF MarkSuccess, Settled, JobsOK, JobOK
      <4>5. stored' = stored BY <2>4 DEF MarkSuccess
      <4>6. \A s \in Results : Outcome(s)' = IF s = r THEN "delivered" ELSE Outcome(s)
        BY <4>2, <4>3
      <4> QED BY <4>1, <4>4, <4>5, <4>6, SettleStep
    <3>2. CASE ~Holds(w)
      <4>1. UNCHANGED <<row, token, stored>> BY <2>4, <3>2 DEF MarkSuccess
      <4> QED BY <2>4, <4>1, LetGo DEF MarkSuccess
    <3> QED BY <3>1, <3>2
  <2>5. CASE MarkDeadLetter(w)
    <3>1. CASE Holds(w)
      <4>1. r \in Results /\ Outcome(r) = "open"
        BY <2>5, <3>1, HeldIsOpen DEF MarkDeadLetter
      <4>2. Outcome(r)' = "dead" BY <2>5, <3>1, <4>1 DEF MarkDeadLetter, Outcome
      <4>3. \A s \in Results : s # r => Outcome(s)' = Outcome(s)
        BY <2>5, <4>1, OthersKept DEF MarkDeadLetter, NoJob
      <4>4. stored' = stored BY <2>5 DEF MarkDeadLetter
      <4>5. \A s \in Results : Outcome(s)' = IF s = r THEN "dead" ELSE Outcome(s)
        BY <4>2, <4>3
      <4> QED BY <4>1, <4>4, <4>5, SettleStep
    <3>2. CASE ~Holds(w) BY <2>5, <3>2, LetGo DEF MarkDeadLetter
    <3> QED BY <3>1, <3>2
  <2>6. CASE HandleTransient(w)
    <3>1. CASE ~Holds(w)
      <4>1. UNCHANGED <<row, token, stored>> BY <2>6, <3>1 DEF HandleTransient
      <4> QED BY <2>6, <4>1, LetGo DEF HandleTransient
    <3>2. CASE Holds(w)
      <4>1. r \in Results /\ Outcome(r) = "open"
        BY <2>6, <3>2, HeldIsOpen DEF HandleTransient
      <4>2. \A s \in Results : s # r => Outcome(s)' = Outcome(s)
        BY <2>6, <4>1, OthersKept DEF HandleTransient, NoJob
      <4>3. stored' = stored BY <2>6 DEF HandleTransient
      <4>4. row'[r] \in {"DEAD_LETTER", "PENDING"}
        BY <2>6, <3>2, <4>1 DEF HandleTransient
      <4>5. Outcome(r)' \in {"dead", "open"} BY <4>4 DEF Outcome
      <4>6. CASE Outcome(r)' = "dead"
        <5>1. \A s \in Results : Outcome(s)' = IF s = r THEN "dead" ELSE Outcome(s)
          BY <4>2, <4>6
        <5> QED BY <4>1, <4>3, <5>1, SettleStep
      <4>7. CASE Outcome(r)' = "open"
        <5>1. \A s \in Results : Outcome(s)' = Outcome(s) BY <4>1, <4>2, <4>7
        <5> QED BY <4>3, <5>1, Stutter
      <4> QED BY <4>5, <4>6, <4>7
    <3> QED BY <3>1, <3>2
  <2>7. CASE MarkSuccessRaises(w)
    <3>1. r \in Results BY <2>7 DEF MarkSuccessRaises, Settled, JobsOK, JobOK
    <3>2. \A s \in Results : s # r => Outcome(s)' = Outcome(s)
      <4>1. job'[w].r = r /\ \A v \in Workers \ {w} : job'[v] = job[v]
        BY <2>7 DEF MarkSuccessRaises
      <4>2. \A s \in Results : s # r => row'[s] = row[s] /\ token'[s] = token[s]
        BY <2>7 DEF MarkSuccessRaises
      <4>3. job[w].r \in {r, None} /\ job'[w].r \in {r, None} BY <4>1
      <4>4. job' \in [Workers -> Jobs] OBVIOUS
      <4>5. ASSUME NEW s \in Results, s # r PROVE Outcome(s)' = Outcome(s)
        <5> HIDE DEF IInv, TypeOK, Jobs, rowVars, shopVars
        <5> QED BY <3>1, <4>1, <4>2, <4>3, <4>4, <4>5, OthersKept
      <4> QED BY <4>5
    <3>3. Outcome(r)' = Outcome(r)
      <4>1. CASE Holds(w)
        <5>1. Outcome(r) = "open"
          BY <2>7, <4>1, HeldIsOpen DEF MarkSuccessRaises, Settled
        <5>2. row'[r] \in {"DELIVERED", "PROCESSING"} /\ token'[r] = w
          BY <2>7, <3>1, <4>1 DEF MarkSuccessRaises, Settled, Holds, JobsOK, JobOK
        <5>3. job'[w].r = r /\ job'[w].at = "failing" BY <2>7 DEF MarkSuccessRaises
        <5> QED BY <5>1, <5>2, <5>3 DEF Outcome, Unconfirmed
      <4>2. CASE ~Holds(w)
        <5>1. UNCHANGED <<row, token>> BY <2>7, <4>2 DEF MarkSuccessRaises
        <5>2. Unconfirmed(r)' <=> Unconfirmed(r)
          BY <2>7, <4>2, <5>1 DEF MarkSuccessRaises, Unconfirmed, Holds
        <5> QED BY <5>1, <5>2 DEF Outcome
      <4> QED BY <4>1, <4>2
    <3>4. stored' = stored BY <2>7 DEF MarkSuccessRaises
    <3> QED BY <3>2, <3>3, <3>4, Stutter
  <2>8. CASE MarkRaises(w) BY <2>8, LetGo DEF MarkRaises
  <2> QED BY <1>4, <2>1, <2>2, <2>3, <2>4, <2>5, <2>6, <2>7, <2>8 DEF Work, Mark
<1>5. ASSUME NEW w \in Workers, Start(w)
      PROVE Promise!Next \/ UNCHANGED <<Outcomes, Answers>>
  BY <1>5, Stutter DEF Start, Outcome, Unconfirmed
<1>6. ASSUME NEW w \in Workers, NEW r \in Results, Claim(w, r)
      PROVE Promise!Next \/ UNCHANGED <<Outcomes, Answers>>
  <2>1. Outcome(r)' = Outcome(r) BY <1>6 DEF Claim, Claimable, Outcome
  <2>2. \A s \in Results : s # r => Outcome(s)' = Outcome(s)
    BY <1>6, OthersKept DEF Claim, JobsOK, JobOK
  <2>3. stored' = stored BY <1>6 DEF Claim
  <2> QED BY <2>1, <2>2, <2>3, Stutter
<1>7. ASSUME NEW w \in Workers, NEW how \in {"stopped", "crashed"}, Halt(w, how)
      PROVE Promise!Next \/ UNCHANGED <<Outcomes, Answers>>
  BY <1>7, LetGo DEF Halt
<1>8. CASE UNCHANGED vars
  BY <1>8, Stutter DEF vars, Outcome, Unconfirmed
<1> QED BY <1>1, <1>2, <1>3, <1>4, <1>5, <1>6, <1>7, <1>8 DEF Next

\* The outbox implements DeliveryPromise: what a webhook enqueued is never lost,
\* never reopened and never called delivered without an answer.
THEOREM KeepsPromiseCorrect == Spec => KeepsPromise
<1>1. Init => Promise!Init
  BY OutboxAssumption DEF Init, Promise!Init, Outcome
<1>2. IInv /\ IInv' /\ [Next]_vars => [Promise!Next]_Promise!vars
  BY StepRefines DEF Outcomes, Answers, Promise!vars
<1> QED BY <1>1, <1>2, Invariance, PTL DEF Spec, KeepsPromise, Promise!SafeSpec
=============================================================================
