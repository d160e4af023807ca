--------------------------- MODULE SubagentProofs ---------------------------
(***************************************************************************)
(* Theorems about Subagent for every finite set of agents and every bound. *)
(* The inductive invariant is Ledger: what a row's status says of its      *)
(* agent, what an agent's hooks say of its row, what the picker still owes *)
(* the row it dispatches, and who may still write to the owner about a job.*)
(***************************************************************************)
EXTENDS Subagent, TLAPS, FiniteSetTheorems

(* A row without an agent has not been started, and a row that still waits *)
(* has attempts left.                                                      *)
RowsAreSound ==
  \A k \in JobIds :
    /\ jobs[k].status \in {"absent", "requested", "error"} => jobs[k].agent = NoAgent
    /\ jobs[k].status = "started" => jobs[k].agent # NoAgent
    /\ jobs[k].status = "requested" => jobs[k].attempts < MaxAttempts

(* An agent that has a row has begun; one that has not begun, or is gone,  *)
(* runs no hook; while the process is down every agent is one of these.    *)
AgentsAreSound ==
  /\ \A k \in JobIds : jobs[k].agent # NoAgent => agents[jobs[k].agent].start # "none"
  /\ \A a \in Agents :
       /\ agents[a].start = "none" => agents[a].stop = "none" /\ ~agents[a].live
       /\ agents[a].start = "gone" => agents[a].stop = "done" /\ ~agents[a].live
       /\ ppc = "off" => agents[a].start \in {"none", "gone"}
  /\ ppc = "off" => notes = {}

Holding == {"ask", "refetch", "fail"}
PickerHolds ==
  /\ ppc \in Holding \cup {"notify"} <=> pjob # NoJob
  /\ ppc \in Holding => jobs[pjob].status \notin {"absent", "error"}

(* The dispatches of a job that no attempt and no crash accounts for yet.  *)
Open(k) == IF ppc = "dead" \/ (ppc \in Holding /\ pjob = k) THEN 1 ELSE 0
BudgetIsKept ==
  \A k \in JobIds :
    /\ asked[k] <= MaxAttempts + crashes
    /\ jobs[k].status = "requested" => asked[k] <= jobs[k].attempts + crashes + Open(k)
    /\ jobs[k].status = "absent" => asked[k] = 0

(* The agent of row k has nothing more to say.                             *)
Silent(k) == jobs[k].agent # NoAgent /\ agents[jobs[k].agent].stop = "done"
MessagesAreSound ==
  /\ \A k \in notes : Silent(k) /\ told[k] = 0
  /\ \A k \in JobIds : told[k] # 0 =>
       told[k] = 1 /\ (jobs[k].status = "error" \/ Silent(k))
  /\ ppc = "notify" => jobs[pjob].status = "error" /\ told[pjob] = 0

(* An agent that has a row, or has failed to claim the row it was asked    *)
(* for, cannot claim that row any more: it waits for nobody.               *)
ClaimIsSound(q, a) ==
  /\ q.start = "claim" => q.req # NoJob
  /\ q.req # NoJob =>
       /\ jobs[q.req].status # "absent"
       /\ q.start = "insert" \/ (\E k \in JobIds : jobs[k].agent = a) =>
            jobs[q.req].status # "requested"
ClaimsAreSound == \A a \in Agents : ClaimIsSound(agents[a], a)

Ledger ==
  /\ TypeOK /\ OneRowPerAgent /\ StartedIsOfThisLife
  /\ RowsAreSound /\ AgentsAreSound /\ ClaimsAreSound
  /\ PickerHolds /\ BudgetIsKept /\ MessagesAreSound

-----------------------------------------------------------------------------
(* Job ids are positive numbers, so NoJob is none of them.                 *)
LEMMA JobIdsArePositive == JobIds \subseteq Nat \ {0} /\ NoJob \notin JobIds
<1>1. Cardinality(Agents) \in Nat
  BY SubagentAssumption, FS_CardinalityType
<1>2. MaxRequests \in Nat
  BY SubagentAssumption
<1> QED BY <1>1, <1>2 DEF JobIds, NoJob

(* A record with the fields of a row is a row.                             *)
LEMMA RowFields ==
  ASSUME NEW st \in {"absent", "requested", "started"} \cup Terminal,
         NEW a \in Agents \cup {NoAgent}, NEW c \in BOOLEAN, NEW n \in 0..MaxAttempts
  PROVE  [status |-> st, agent |-> a, cancel |-> c, attempts |-> n] \in Row
BY DEF Row

(* A row enters the table with no cancel flag and no attempt spent.        *)
LEMMA NewRowFields ==
  ASSUME NEW st \in {"absent", "requested", "started"}, NEW a \in Agents \cup {NoAgent}
  PROVE  /\ NewRow(st, a) \in Row
         /\ NewRow(st, a).status = st /\ NewRow(st, a).agent = a
         /\ NewRow(st, a).attempts = 0
<1>1. 0 \in 0..MaxAttempts
  BY SubagentAssumption
<1>2. NewRow(st, a) = [status |-> st, agent |-> a, cancel |-> FALSE, attempts |-> 0]
  BY DEF NewRow
<1>3. NewRow(st, a) \in Row
  BY <1>1, <1>2, RowFields
<1> QED BY <1>2, <1>3

(* The statements of the store keep a row a row and leave its agent alone; *)
(* each says what it may do to the status and to the attempts.             *)
LEMMA CancelledRow ==
  ASSUME NEW r \in Row
  PROVE  /\ Cancelled(r) \in Row
         /\ Cancelled(r).agent = r.agent
         /\ Cancelled(r).attempts = r.attempts
         /\ Cancelled(r).status = IF r.status = "requested" THEN "stopped" ELSE r.status
<1>1. /\ r.status \in {"absent", "requested", "started"} \cup Terminal
      /\ r.agent \in Agents \cup {NoAgent} /\ r.attempts \in 0..MaxAttempts
      /\ r.cancel \in BOOLEAN
      /\ r = [status |-> r.status, agent |-> r.agent, cancel |-> r.cancel, attempts |-> r.attempts]
  BY DEF Row
<1>2. CASE r.status \in Terminal
  BY <1>2 DEF Cancelled, Terminal, Verdicts
<1>3. CASE r.status \notin Terminal
  <2> DEFINE st == IF r.status = "requested" THEN "stopped" ELSE r.status
  <2>1. Cancelled(r) = [status |-> st, agent |-> r.agent, cancel |-> TRUE,
                        attempts |-> r.attempts]
    BY <1>1, <1>3 DEF Cancelled
  <2>2. st \in {"absent", "requested", "started"} \cup Terminal
    BY <1>1 DEF Terminal, Verdicts
  <2> HIDE DEF st
  <2>3. Cancelled(r) \in Row
    BY <2>1, <2>2, <1>1, RowFields
  <2> QED BY <2>1, <2>3 DEF st
<1> QED BY <1>2, <1>3

(* A failed dispatch costs a waiting row one attempt and ends it with the  *)
(* last; any other row is left alone.                                      *)
LEMMA DispatchFailedRow ==
  ASSUME NEW r \in Row, r.status = "requested" => r.attempts < MaxAttempts
  PROVE  /\ DispatchFailed(r) \in Row
         /\ DispatchFailed(r).agent = r.agent
         /\ r.status # "requested" => DispatchFailed(r) = r
         /\ r.status = "requested" =>
              /\ DispatchFailed(r).attempts = r.attempts + 1
              /\ DispatchFailed(r).status =
                   IF r.attempts + 1 >= MaxAttempts THEN "error" ELSE "requested"
<1>1. /\ r.agent \in Agents \cup {NoAgent} /\ r.attempts \in 0..MaxAttempts
      /\ r.cancel \in BOOLEAN
      /\ r = [status |-> r.status, agent |-> r.agent, cancel |-> r.cancel, attempts |-> r.attempts]
  BY DEF Row
<1>2. CASE r.status # "requested"
  BY <1>2 DEF DispatchFailed
<1>3. CASE r.status = "requested"
  <2> DEFINE st == IF r.attempts + 1 >= MaxAttempts THEN "error" ELSE "requested"
  <2>1. DispatchFailed(r) = [status |-> st, agent |-> r.agent, cancel |-> r.cancel,
                             attempts |-> r.attempts + 1]
    BY <1>1, <1>3 DEF DispatchFailed
  <2>2. st \in {"absent", "requested", "started"} \cup Terminal
    BY DEF Terminal, Verdicts
  <2>3. r.attempts + 1 \in 0..MaxAttempts
    BY <1>1, <1>3, SubagentAssumption
  <2> HIDE DEF st
  <2>4. DispatchFailed(r) \in Row
    BY <2>1, <2>2, <2>3, <1>1, RowFields
  <2> QED BY <2>1, <2>4, <1>3 DEF st
<1> QED BY <1>2, <1>3

(* The end of an agent's run reaches only a row that carries the agent.    *)
LEMMA FinishedRow ==
  ASSUME NEW r \in Row, NEW a, NEW v \in Verdicts
  PROVE  /\ Finished(r, a, v) \in Row
         /\ Finished(r, a, v).agent = r.agent
         /\ Finished(r, a, v).attempts = r.attempts
         /\ Finished(r, a, v).status =
              IF r.agent = a /\ r.status \in {"started", "requested"} THEN v ELSE r.status
<1>1. /\ r.agent \in Agents \cup {NoAgent} /\ r.attempts \in 0..MaxAttempts
      /\ r.cancel \in BOOLEAN
      /\ r = [status |-> r.status, agent |-> r.agent, cancel |-> r.cancel, attempts |-> r.attempts]
  BY DEF Row
<1>2. [status |-> v, agent |-> r.agent, cancel |-> r.cancel, attempts |-> r.attempts] \in Row
  BY <1>1, RowFields DEF Terminal
<1>3. [r EXCEPT !.status = v] =
        [status |-> v, agent |-> r.agent, cancel |-> r.cancel, attempts |-> r.attempts]
  BY <1>1
<1> QED BY <1>2, <1>3 DEF Finished

(* A boot ends every started row and every requested row that is stale.    *)
LEMMA RecoveredRow ==
  ASSUME NEW r \in Row, NEW stale \in BOOLEAN
  PROVE  /\ Recovered(r, stale) \in Row
         /\ Recovered(r, stale).agent = r.agent
         /\ Recovered(r, stale).attempts = r.attempts
         /\ Recovered(r, stale).status =
              IF r.status = "started"
              THEN IF r.agent = NoAgent THEN "dropped" ELSE "interrupted"
              ELSE IF r.status = "requested" /\ stale THEN "dropped" ELSE r.status
<1>1. /\ r.agent \in Agents \cup {NoAgent} /\ r.attempts \in 0..MaxAttempts
      /\ r.cancel \in BOOLEAN
      /\ r = [status |-> r.status, agent |-> r.agent, cancel |-> r.cancel, attempts |-> r.attempts]
  BY DEF Row
<1>2. ASSUME NEW v \in {"dropped", "interrupted"}
      PROVE  /\ [status |-> v, agent |-> r.agent, cancel |-> r.cancel, attempts |-> r.attempts] \in Row
             /\ [r EXCEPT !.status = v] =
                  [status |-> v, agent |-> r.agent, cancel |-> r.cancel, attempts |-> r.attempts]
  BY <1>1, RowFields DEF Terminal
<1> QED BY <1>2 DEF Recovered

-----------------------------------------------------------------------------
(* The initial state is sound.                                             *)
LEMMA LedgerInit == Init => Ledger
<1> SUFFICES ASSUME Init PROVE Ledger
  OBVIOUS
<1> USE DEF Init
<1>0. JobIds \subseteq Nat \ {0} /\ NoJob \notin JobIds /\ MaxAttempts \in Nat \ {0}
  BY JobIdsArePositive, SubagentAssumption
<1>1. NoRow \in Row /\ NoRow.status = "absent" /\ NoRow.agent = NoAgent
  BY NewRowFields DEF NoRow
<1>2. Unborn \in Agent /\ Unborn.start = "none" /\ Unborn.stop = "none" /\ ~Unborn.live
  BY DEF Unborn, Agent, Verdicts
<1>3. TypeOK
  BY <1>1, <1>2 DEF TypeOK, PickerPcs
<1>4. OneRowPerAgent /\ StartedIsOfThisLife /\ RowsAreSound
  BY <1>1 DEF OneRowPerAgent, StartedIsOfThisLife, RowsAreSound
<1>5. AgentsAreSound /\ PickerHolds /\ MessagesAreSound
  BY <1>1, <1>2 DEF AgentsAreSound, PickerHolds, Holding, MessagesAreSound
<1>6. BudgetIsKept
  BY <1>0, <1>1 DEF BudgetIsKept, Open, Holding
<1>7. ClaimsAreSound
  BY <1>2 DEF ClaimsAreSound, ClaimIsSound, Unborn
<1> QED BY <1>3, <1>4, <1>5, <1>6, <1>7 DEF Ledger

(* A step that moves only agents keeps the ledger when no agent is unborn, *)
(* revived or made to speak again by it.                                   *)
AgentMoves(a) ==
  /\ agents[a].start # "none" => agents'[a].start # "none"
  /\ agents[a].start # "gone" => agents'[a].start # "gone"
  /\ agents[a].stop = "done" => agents'[a].stop = "done"
  /\ agents'[a].start = "none" => agents'[a].stop = "none" /\ ~agents'[a].live
  /\ agents'[a].start = "gone" => agents'[a].stop = "done" /\ ~agents'[a].live
  /\ ClaimIsSound(agents[a], a)'

(* A step of which this is true, and which leaves the rows alone, keeps    *)
(* the ledger.                                                             *)
LEMMA OnlyAgentsMove ==
  ASSUME Ledger,
         agents' \in [Agents -> Agent], errors' \in Nat, repeats' \in Nat,
         UNCHANGED <<jobs, ppc, pjob, asked, notes, told, crashes>>,
         \A a \in Agents : AgentMoves(a),
         ppc # "off" \/ \A a \in Agents : agents'[a].start = agents[a].start
  PROVE  Ledger'
<1> USE DEF Ledger
<1>1. TypeOK'
  BY DEF TypeOK
<1>2. OneRowPerAgent' /\ RowsAreSound' /\ PickerHolds' /\ BudgetIsKept'
  BY DEF OneRowPerAgent, RowsAreSound, PickerHolds, BudgetIsKept, Open, Holding
<1>3. \A k \in JobIds : jobs[k].agent \in Agents \cup {NoAgent}
  BY DEF TypeOK, Row
<1>4. StartedIsOfThisLife'
  BY DEF StartedIsOfThisLife, Up, AgentMoves
<1>5. AgentsAreSound'
  BY <1>3 DEF AgentsAreSound, AgentMoves
<1>6. \A k \in JobIds : Silent(k) => Silent(k)'
  BY <1>3 DEF Silent, AgentMoves
<1>7. \A k \in notes : k \in JobIds
  BY DEF TypeOK
<1>8. MessagesAreSound'
  BY <1>6, <1>7 DEF MessagesAreSound
<1>9. ClaimsAreSound'
  BY DEF ClaimsAreSound, AgentMoves
<1> QED BY <1>1, <1>2, <1>4, <1>5, <1>8, <1>9

-----------------------------------------------------------------------------
(* The death of the process ends an agent that has begun.                  *)
LEMMA GoneAgent ==
  ASSUME NEW r \in Agent
  PROVE  /\ Gone(r) \in Agent /\ Gone(r).start \in {"none", "gone"}
         /\ r.start # "none" => /\ Gone(r).start = "gone" /\ Gone(r).stop = "done"
                                /\ ~Gone(r).live
         /\ r.start = "none" => Gone(r) = r
         /\ r.start # "none" => Gone(r).req = NoJob
<1>1. "completed" \in Verdicts
  BY DEF Verdicts
<1> QED BY <1>1 DEF Agent, Gone, Unborn

(* One agent of many is updated.                                           *)
LEMMA OneAgentMoves ==
  ASSUME Ledger, NEW a \in Agents, NEW q \in Agent,
         agents' = [agents EXCEPT ![a] = q],
         errors' \in Nat, repeats' \in Nat,
         UNCHANGED <<jobs, ppc, pjob, asked, notes, told, crashes>>,
         ppc # "off",
         \/ q.start \in {"claim", "insert", "done"}
         \/ q.start = agents[a].start /\ q.start \notin {"none", "gone"},
         agents[a].stop = "done" => q.stop = "done",
         ClaimIsSound(q, a)
  PROVE  Ledger'
<1>1. agents \in [Agents -> Agent] /\ AgentsAreSound /\ ClaimsAreSound
  BY DEF Ledger, TypeOK
<1>2. agents' \in [Agents -> Agent]
  BY <1>1
<1>3. ASSUME NEW b \in Agents
      PROVE  AgentMoves(b)
  <2>1. CASE b = a
    BY <2>1, <1>1 DEF AgentMoves, ClaimIsSound
  <2>2. CASE b # a
    BY <2>2, <1>1 DEF AgentMoves, AgentsAreSound, ClaimsAreSound, ClaimIsSound
  <2> QED BY <2>1, <2>2
<1> QED BY <1>2, <1>3, OnlyAgentsMove

(* An agent begins, begins again or ends while the process is up.          *)
LEMMA SdkKeepsLedger ==
  ASSUME Ledger, NEW a \in Agents, Sdk(a)
  PROVE  Ledger'
<1>1. /\ agents \in [Agents -> Agent] /\ agents[a] \in Agent /\ AgentsAreSound
      /\ errors \in Nat /\ repeats \in Nat /\ pjob \in JobIds \cup {NoJob}
      /\ ClaimIsSound(agents[a], a)
  BY DEF Ledger, TypeOK, ClaimsAreSound
<1>2. ASSUME NEW req \in JobIds \cup {NoJob}, ppc # "off", Begin(a, req),
             req # NoJob => jobs[req].status # "absent"
      PROVE  Ledger'
  <2> DEFINE y == IF req = NoJob THEN "insert" ELSE "claim"
  <2> DEFINE q == [agents[a] EXCEPT !.req = req, !.live = TRUE, !.start = y]
  <2>1. y \in {"claim", "insert"}
    OBVIOUS
  <2> HIDE DEF y
  <2>2. q \in Agent /\ q.start = y /\ q.stop = agents[a].stop /\ q.req = req
    BY <1>1, <2>1 DEF Agent
  <2>3. agents' = [agents EXCEPT ![a] = q]
    BY <1>2 DEF Begin, y
  <2>4. UNCHANGED <<jobs, ppc, pjob, asked, notes, told, crashes, errors, repeats>>
    BY <1>2 DEF Begin, pickerVars, budgets
  <2> HIDE DEF q
  <2>5. ClaimIsSound(q, a)
    BY <1>1, <1>2, <2>2, SubagentAssumption DEF ClaimIsSound, AgentsAreSound, Begin, y
  <2> QED BY <2>1, <2>2, <2>3, <2>4, <2>5, <1>1, <1>2, OneAgentMoves
<1>3. CASE PickedTask(a)
  <2>1. pjob \in JobIds /\ jobs[pjob].status # "absent" /\ ppc = "ask"
    BY <1>1, <1>3 DEF PickedTask, Ledger, PickerHolds, Holding
  <2> QED BY <2>1, <1>2, <1>3 DEF PickedTask
<1>4. CASE NativeTask(a)
  BY <1>1, <1>2, <1>4 DEF NativeTask, Up
<1>5. CASE StartAgain(a)
  <2> DEFINE y == IF agents[a].req = NoJob THEN "insert" ELSE "claim"
  <2> DEFINE q == [agents[a] EXCEPT !.start = y]
  <2>1. y \in {"claim", "insert", "done"}
    OBVIOUS
  <2> HIDE DEF y
  <2>2. q \in Agent /\ q.start = y /\ q.stop = agents[a].stop /\ q.req = agents[a].req
    BY <1>1, <2>1 DEF Agent
  <2>3. agents' = [agents EXCEPT ![a] = q] /\ repeats' \in Nat
    BY <1>5, <1>1 DEF StartAgain, y
  <2>4. UNCHANGED <<jobs, ppc, pjob, asked, notes, told, crashes, errors>>
    BY <1>5 DEF StartAgain, pickerVars
  <2>5. ppc # "off"
    BY <1>5, <1>1 DEF StartAgain, AgentsAreSound
  <2> HIDE DEF q
  <2>6. ClaimIsSound(q, a)
    BY <1>1, <2>2 DEF ClaimIsSound, y
  <2> QED BY <2>1, <2>2, <2>3, <2>4, <2>5, <2>6, <1>1, OneAgentMoves
<1>6. CASE StopRead(a)
  <2> DEFINE v == IF \E k \in RowsOf(a) : jobs[k].cancel THEN "stopped" ELSE "completed"
  <2> DEFINE q == [agents[a] EXCEPT !.stop = "record", !.verdict = v]
  <2>1. v \in Verdicts
    BY DEF Verdicts
  <2> HIDE DEF v
  <2>2. q \in Agent /\ q.start = agents[a].start /\ q.req = agents[a].req
    BY <1>1, <2>1 DEF Agent
  <2>3. agents' = [agents EXCEPT ![a] = q]
    BY <1>6, <1>1 DEF StopRead, v
  <2>4. UNCHANGED <<jobs, ppc, pjob, asked, notes, told, crashes, errors, repeats>>
    BY <1>6 DEF StopRead, pickerVars, budgets
  <2>5. ppc # "off" /\ q.start \notin {"none", "gone"} /\ agents[a].stop # "done"
    BY <1>6, <1>1, <2>2 DEF StopRead, AgentsAreSound
  <2> HIDE DEF q
  <2>6. ClaimIsSound(q, a)
    BY <1>1, <2>2 DEF ClaimIsSound
  <2> QED BY <2>2, <2>3, <2>4, <2>5, <2>6, <1>1, OneAgentMoves
<1>7. CASE SessionLost(a)
  <2> DEFINE q == [agents[a] EXCEPT !.live = FALSE]
  <2>1. q \in Agent /\ q.start = agents[a].start /\ q.stop = agents[a].stop /\ q.req = agents[a].req
    BY <1>1 DEF Agent
  <2>2. agents' = [agents EXCEPT ![a] = q]
    BY <1>7 DEF SessionLost
  <2>3. UNCHANGED <<jobs, ppc, pjob, asked, notes, told, crashes, errors, repeats>>
    BY <1>7 DEF SessionLost, pickerVars, budgets
  <2>4. ppc # "off" /\ q.start \notin {"none", "gone"}
    BY <1>7, <1>1, <2>1 DEF SessionLost, AgentsAreSound
  <2> HIDE DEF q
  <2>5. ClaimIsSound(q, a)
    BY <1>1, <2>1 DEF ClaimIsSound
  <2> QED BY <2>1, <2>2, <2>3, <2>4, <2>5, <1>1, OneAgentMoves
<1> QED BY <1>3, <1>4, <1>5, <1>6, <1>7 DEF Sdk

(* The session of the picker ends.                                         *)
LEMMA PickerReturnKeepsLedger ==
  ASSUME Ledger, PickerReturn
  PROVE  Ledger'
<1>1. /\ agents \in [Agents -> Agent] /\ AgentsAreSound /\ ClaimsAreSound
      /\ PickerHolds /\ BudgetIsKept /\ MessagesAreSound
      /\ OneRowPerAgent /\ StartedIsOfThisLife /\ RowsAreSound /\ TypeOK
  BY DEF Ledger, TypeOK
<1>2. /\ ppc = "ask" /\ ppc' = "refetch"
      /\ UNCHANGED <<jobs, pjob, asked, notes, told, crashes, errors, repeats>>
  BY DEF PickerReturn, budgets
<1>3. ASSUME NEW a \in Agents
      PROVE  /\ agents'[a] \in Agent
             /\ agents'[a].start = agents[a].start /\ agents'[a].stop = agents[a].stop
             /\ agents'[a].live => agents[a].live
             /\ agents'[a].req = agents[a].req
  <2>1. agents'[a] = IF agents[a].req = pjob THEN [agents[a] EXCEPT !.live = FALSE]
                                             ELSE agents[a]
    BY DEF PickerReturn
  <2>2. agents[a] \in Agent
    BY <1>1
  <2> QED BY <2>1, <2>2 DEF Agent
<1>4. agents' \in [Agents -> Agent]
  <2>1. agents' = [a \in Agents |-> agents'[a]]
    BY DEF PickerReturn
  <2> QED BY <2>1, <1>3
<1>5. \A k \in JobIds : jobs[k].agent \in Agents \cup {NoAgent}
  BY <1>1 DEF TypeOK, Row
<1>6. TypeOK'
  BY <1>1, <1>2, <1>4 DEF TypeOK, PickerPcs
<1>7. OneRowPerAgent' /\ RowsAreSound' /\ StartedIsOfThisLife'
  BY <1>1, <1>2, <1>3 DEF OneRowPerAgent, RowsAreSound, StartedIsOfThisLife, Up
<1>8. AgentsAreSound'
  BY <1>1, <1>2, <1>3, <1>5 DEF AgentsAreSound
<1>9. PickerHolds' /\ BudgetIsKept'
  BY <1>1, <1>2 DEF PickerHolds, BudgetIsKept, Open, Holding
<1>10. MessagesAreSound'
  <2>1. \A k \in JobIds : Silent(k) => Silent(k)'
    BY <1>2, <1>3, <1>5 DEF Silent
  <2>2. notes \subseteq JobIds
    BY <1>1 DEF TypeOK
  <2> QED BY <1>1, <1>2, <2>1, <2>2 DEF MessagesAreSound, Holding
<1>11. ClaimsAreSound'
  BY <1>1, <1>2, <1>3 DEF ClaimsAreSound, ClaimIsSound
<1> QED BY <1>6, <1>7, <1>8, <1>9, <1>10, <1>11 DEF Ledger

(* A store operation of a hook raises.                                     *)
LEMMA HookStoreErrorKeepsLedger ==
  ASSUME Ledger, NEW a \in Agents, HookStoreError(a)
  PROVE  Ledger'
<1>1. /\ agents \in [Agents -> Agent] /\ agents[a] \in Agent /\ AgentsAreSound
      /\ errors \in Nat /\ repeats \in Nat /\ "completed" \in Verdicts
      /\ ClaimIsSound(agents[a], a)
  BY DEF Ledger, TypeOK, Verdicts, ClaimsAreSound
<1>2. /\ UNCHANGED <<jobs, ppc, pjob, asked, notes, told, crashes, repeats>>
      /\ errors' \in Nat
  BY <1>1 DEF HookStoreError, pickerVars
<1>3. CASE /\ agents[a].start \in {"claim", "insert"}
           /\ agents' = [agents EXCEPT ![a].start = "done"]
  <2> DEFINE q == [agents[a] EXCEPT !.start = "done"]
  <2>1. q \in Agent /\ q.start = "done" /\ q.stop = agents[a].stop /\ q.req = agents[a].req
    BY <1>1 DEF Agent
  <2>2. agents' = [agents EXCEPT ![a] = q]
    BY <1>3
  <2>3. ppc # "off"
    BY <1>1, <1>3 DEF AgentsAreSound
  <2> HIDE DEF q
  <2>4. ClaimIsSound(q, a)
    BY <1>1, <2>1 DEF ClaimIsSound
  <2> QED BY <2>1, <2>2, <2>3, <2>4, <1>1, <1>2, OneAgentMoves
<1>4. CASE /\ agents[a].stop = "record"
           /\ agents' = [agents EXCEPT ![a].stop = "fetch", ![a].verdict = "completed"]
  <2> DEFINE q == [agents[a] EXCEPT !.stop = "fetch", !.verdict = "completed"]
  <2>1. q \in Agent /\ q.start = agents[a].start /\ q.req = agents[a].req
    BY <1>1 DEF Agent
  <2>2. agents' = [agents EXCEPT ![a] = q]
    BY <1>1, <1>4
  <2>3. ppc # "off" /\ q.start \notin {"none", "gone"} /\ agents[a].stop # "done"
    BY <1>1, <1>4, <2>1 DEF AgentsAreSound
  <2> HIDE DEF q
  <2>4. ClaimIsSound(q, a)
    BY <1>1, <2>1 DEF ClaimIsSound
  <2> QED BY <2>1, <2>2, <2>3, <2>4, <1>1, <1>2, OneAgentMoves
<1>5. CASE /\ \/ agents[a].stop = "fetch"
              \/ agents[a].live /\ agents[a].start # "none" /\ agents[a].stop = "none"
           /\ agents' = [agents EXCEPT ![a].stop = "done", ![a].live = FALSE]
  <2> DEFINE q == [agents[a] EXCEPT !.stop = "done", !.live = FALSE]
  <2>1. q \in Agent /\ q.start = agents[a].start /\ q.stop = "done" /\ q.req = agents[a].req
    BY <1>1 DEF Agent
  <2>2. agents' = [agents EXCEPT ![a] = q]
    BY <1>1, <1>5
  <2>3. ppc # "off" /\ q.start \notin {"none", "gone"}
    BY <1>1, <1>5, <2>1 DEF AgentsAreSound
  <2> HIDE DEF q
  <2>4. ClaimIsSound(q, a)
    BY <1>1, <2>1 DEF ClaimIsSound
  <2> QED BY <2>1, <2>2, <2>3, <2>4, <1>1, <1>2, OneAgentMoves
<1> QED BY <1>3, <1>4, <1>5 DEF HookStoreError

(* The process dies.                                                       *)
LEMMA CrashKeepsLedger ==
  ASSUME Ledger, Crash
  PROVE  Ledger'
<1>1. /\ agents \in [Agents -> Agent] /\ AgentsAreSound /\ ClaimsAreSound
      /\ PickerHolds /\ BudgetIsKept /\ MessagesAreSound
      /\ OneRowPerAgent /\ StartedIsOfThisLife /\ RowsAreSound /\ TypeOK
  BY DEF Ledger, TypeOK
<1>2. /\ ppc # "off" /\ ppc' = "off" /\ pjob' = NoJob /\ notes' = {} /\ crashes' = crashes + 1
      /\ UNCHANGED <<jobs, asked, told, errors, repeats>>
  BY DEF Crash, Up
<1>3. ASSUME NEW a \in Agents
      PROVE  /\ agents'[a] \in Agent /\ agents'[a].start \in {"none", "gone"}
             /\ agents[a].start # "none" =>
                  agents'[a].start = "gone" /\ agents'[a].stop = "done" /\ ~agents'[a].live
             /\ agents[a].start = "none" => agents'[a] = agents[a]
             /\ agents[a].start # "none" => agents'[a].req = NoJob
  <2>1. agents'[a] = Gone(agents[a]) /\ agents[a] \in Agent
    BY <1>1 DEF Crash
  <2> QED BY <2>1, GoneAgent
<1>4. agents' \in [Agents -> Agent]
  <2>1. agents' = [a \in Agents |-> agents'[a]]
    BY DEF Crash
  <2> QED BY <2>1, <1>3
<1>5. /\ \A k \in JobIds : jobs[k].agent \in Agents \cup {NoAgent} /\ asked[k] \in Nat
      /\ \A k \in JobIds : jobs[k].attempts \in 0..MaxAttempts
      /\ crashes \in Nat /\ MaxAttempts \in Nat
  BY <1>1, SubagentAssumption DEF TypeOK, Row
<1>6. TypeOK'
  BY <1>1, <1>2, <1>4, <1>5 DEF TypeOK, PickerPcs
<1>7. OneRowPerAgent' /\ RowsAreSound' /\ StartedIsOfThisLife'
  BY <1>1, <1>2 DEF OneRowPerAgent, RowsAreSound, StartedIsOfThisLife, Up
<1>8. AgentsAreSound'
  BY <1>1, <1>2, <1>3, <1>5 DEF AgentsAreSound
<1>9. PickerHolds'
  BY <1>2 DEF PickerHolds, Holding
<1>10. BudgetIsKept'
  BY <1>1, <1>2, <1>5 DEF BudgetIsKept, Open, Holding
<1>11. MessagesAreSound'
  <2>1. \A k \in JobIds : Silent(k) => Silent(k)'
    BY <1>1, <1>2, <1>3, <1>5 DEF Silent, AgentsAreSound
  <2> QED BY <1>1, <1>2, <2>1 DEF MessagesAreSound, Holding
<1>12. ClaimsAreSound'
  BY <1>1, <1>2, <1>3 DEF ClaimsAreSound, ClaimIsSound
<1> QED BY <1>6, <1>7, <1>8, <1>9, <1>10, <1>11, <1>12 DEF Ledger

-----------------------------------------------------------------------------
(* A step that rewrites rows and nothing else keeps the ledger when it     *)
(* leaves the agents of the rows alone, starts no row, puts none back to   *)
(* requested and asks for a row only where there was none.                 *)
RowMoves(k) ==
  /\ jobs'[k].agent = jobs[k].agent
  /\ jobs'[k].status = "started" => jobs[k].status = "started"
  /\ jobs'[k].status = "requested" =>
       /\ jobs[k].status \in {"absent", "requested"}
       /\ jobs'[k].attempts < MaxAttempts
       /\ jobs[k].status = "requested" => jobs'[k].attempts = jobs[k].attempts
  /\ jobs'[k].status = "absent" => jobs[k].status = "absent"
  /\ jobs'[k].status = "error" <=> jobs[k].status = "error"

(* A step of which this is true, and which leaves the agents alone, keeps  *)
(* the ledger.                                                             *)
LEMMA OnlyRowsMove ==
  ASSUME Ledger,
         jobs' \in [JobIds -> Row],
         UNCHANGED <<agents, notes, told, pjob, asked, crashes, errors, repeats>>,
         \A k \in JobIds : RowMoves(k),
         \/ ppc' = ppc /\ ppc # "off"
         \/ /\ ppc = "off" /\ ppc' = "poll"
            /\ \A k \in JobIds : jobs'[k].status # "started"
  PROVE  Ledger'
<1>1. /\ AgentsAreSound /\ ClaimsAreSound
      /\ PickerHolds /\ BudgetIsKept /\ MessagesAreSound
      /\ OneRowPerAgent /\ StartedIsOfThisLife /\ RowsAreSound /\ TypeOK
  BY DEF Ledger
<1>2. \A k \in JobIds : /\ jobs[k].agent \in Agents \cup {NoAgent} /\ asked[k] \in Nat
                        /\ jobs[k].attempts \in 0..MaxAttempts
                        /\ jobs'[k].attempts \in 0..MaxAttempts
  BY <1>1 DEF TypeOK, Row
<1>3. crashes \in Nat /\ MaxAttempts \in Nat \ {0}
  BY <1>1, SubagentAssumption DEF TypeOK
<1>4. TypeOK'
  BY <1>1 DEF TypeOK, PickerPcs
<1>5. OneRowPerAgent'
  BY <1>1 DEF OneRowPerAgent, RowMoves
<1>6. StartedIsOfThisLife'
  BY <1>1 DEF StartedIsOfThisLife, Up, RowMoves
<1>7. RowsAreSound'
  BY <1>1 DEF RowsAreSound, RowMoves
<1>8. AgentsAreSound'
  BY <1>1, <1>2 DEF AgentsAreSound, RowMoves
<1>9. PickerHolds'
  <2>1. pjob # NoJob => pjob \in JobIds
    BY <1>1 DEF TypeOK
  <2> QED BY <2>1, <1>1 DEF PickerHolds, Holding, RowMoves
<1>10. BudgetIsKept'
  BY <1>1, <1>2, <1>3 DEF BudgetIsKept, Open, Holding, RowMoves
<1>11. MessagesAreSound'
  <2>1. \A k \in JobIds : Silent(k)' <=> Silent(k)
    BY DEF Silent, RowMoves
  <2>2. notes \subseteq JobIds /\ (ppc \in Holding \cup {"notify"} => pjob \in JobIds)
    BY <1>1 DEF TypeOK, PickerHolds
  <2> QED BY <1>1, <2>1, <2>2 DEF MessagesAreSound, RowMoves, Holding
<1>12. ClaimsAreSound'
  <2> SUFFICES ASSUME NEW a \in Agents
               PROVE  ClaimIsSound(agents[a], a)'
    BY DEF ClaimsAreSound
  <2>1. agents[a].req \in JobIds \cup {NoJob} /\ ClaimIsSound(agents[a], a)
    BY <1>1 DEF TypeOK, Agent, ClaimsAreSound
  <2> QED BY <2>1 DEF ClaimIsSound, RowMoves
<1> QED BY <1>4, <1>5, <1>6, <1>7, <1>8, <1>9, <1>10, <1>11, <1>12 DEF Ledger

(* The owner asks for a job or cancels one.                                *)
LEMMA OwnerKeepsLedger ==
  ASSUME Ledger, Owner
  PROVE  Ledger'
<1>1. /\ jobs \in [JobIds -> Row] /\ RowsAreSound /\ MaxAttempts \in Nat \ {0}
  BY SubagentAssumption DEF Ledger, TypeOK
<1>2. ASSUME NEW k \in JobIds, Spawn(k)
      PROVE  Ledger'
  <2> DEFINE r == NewRow("requested", NoAgent)
  <2>1. r \in Row /\ r.status = "requested" /\ r.agent = NoAgent /\ r.attempts = 0
    BY NewRowFields
  <2> HIDE DEF r
  <2>2. jobs' = [jobs EXCEPT ![k] = r] /\ jobs[k].status = "absent"
    BY <1>2 DEF Spawn, NextId, r
  <2>3. \A j \in JobIds : RowMoves(j)
    BY <1>1, <2>1, <2>2 DEF RowMoves, RowsAreSound
  <2>4. jobs' \in [JobIds -> Row]
    BY <1>1, <2>1, <2>2
  <2> QED BY <1>2, <2>3, <2>4, OnlyRowsMove DEF Spawn, Up, pickerVars, budgets
<1>3. ASSUME NEW k \in JobIds, Cancel(k)
      PROVE  Ledger'
  <2> DEFINE r == Cancelled(jobs[k])
  <2>1. /\ r \in Row /\ r.agent = jobs[k].agent /\ r.attempts = jobs[k].attempts
        /\ r.status = IF jobs[k].status = "requested" THEN "stopped" ELSE jobs[k].status
    BY <1>1, CancelledRow
  <2>2. jobs' = [jobs EXCEPT ![k] = r] /\ jobs[k].status \in {"requested", "started"}
    BY <1>3 DEF Cancel
  <2> HIDE DEF r
  <2>3. \A j \in JobIds : RowMoves(j)
    BY <1>1, <2>1, <2>2 DEF RowMoves, RowsAreSound
  <2>4. jobs' \in [JobIds -> Row]
    BY <1>1, <2>1, <2>2
  <2> QED BY <1>3, <2>3, <2>4, OnlyRowsMove DEF Cancel, Up, pickerVars, budgets
<1> QED BY <1>2, <1>3 DEF Owner

(* The daemon recovers orphans.                                            *)
LEMMA BootKeepsLedger ==
  ASSUME Ledger, Boot
  PROVE  Ledger'
<1>1. jobs \in [JobIds -> Row] /\ RowsAreSound /\ JobIds \subseteq Nat
  BY JobIdsArePositive DEF Ledger, TypeOK
<1>2. PICK youngest \in JobIds : jobs' = [k \in JobIds |-> Recovered(jobs[k], k < youngest)]
  BY DEF Boot
<1>3. ASSUME NEW k \in JobIds
      PROVE  RowMoves(k) /\ jobs'[k] \in Row /\ jobs'[k].status # "started"
  <2>1. jobs'[k] = Recovered(jobs[k], k < youngest) /\ jobs[k] \in Row
    BY <1>1, <1>2
  <2>2. (k < youngest) \in BOOLEAN
    BY <1>1
  <2> DEFINE r == Recovered(jobs[k], k < youngest)
  <2>3. /\ r \in Row /\ r.agent = jobs[k].agent /\ r.attempts = jobs[k].attempts
        /\ r.status = IF jobs[k].status = "started"
                      THEN IF jobs[k].agent = NoAgent THEN "dropped" ELSE "interrupted"
                      ELSE IF jobs[k].status = "requested" /\ k < youngest THEN "dropped"
                      ELSE jobs[k].status
    BY <2>1, <2>2, RecoveredRow
  <2> HIDE DEF r
  <2>4. jobs'[k] = r
    BY <2>1 DEF r
  <2> QED BY <1>1, <2>3, <2>4 DEF RowMoves, RowsAreSound
<1>4. jobs' \in [JobIds -> Row]
  BY <1>2, <1>3
<1> QED BY <1>3, <1>4, OnlyRowsMove DEF Boot, budgets

-----------------------------------------------------------------------------
(* The picker's own steps.                                                 *)
LEMMA PickerKeepsLedger ==
  ASSUME Ledger, Picker \/ PickerStoreError
  PROVE  Ledger'
<1>1. /\ AgentsAreSound /\ ClaimsAreSound
      /\ PickerHolds /\ BudgetIsKept /\ MessagesAreSound
      /\ OneRowPerAgent /\ StartedIsOfThisLife /\ RowsAreSound /\ TypeOK
  BY DEF Ledger
<1>2. \A k \in JobIds : /\ jobs[k] \in Row
                        /\ jobs[k].agent \in Agents \cup {NoAgent} /\ asked[k] \in Nat
                        /\ jobs[k].attempts \in 0..MaxAttempts /\ told[k] \in Nat
  BY <1>1 DEF TypeOK, Row
<1>3. crashes \in Nat /\ MaxAttempts \in Nat \ {0} /\ NoJob \notin JobIds
  BY <1>1, SubagentAssumption, JobIdsArePositive DEF TypeOK
<1>4. notes \subseteq JobIds
  BY <1>1 DEF TypeOK
<1>5. ASSUME NEW k \in JobIds, PickerTake(k)
      PROVE  Ledger'
  <2>1. /\ ppc = "poll" /\ ppc' = "ask" /\ pjob' = k /\ jobs[k].status = "requested"
        /\ asked' = [asked EXCEPT ![k] = @ + 1]
        /\ UNCHANGED <<jobs, agents, notes, told, crashes, errors, repeats>>
    BY <1>5 DEF PickerTake, Waiting, budgets
  <2>2. TypeOK'
    BY <1>1, <2>1 DEF TypeOK, PickerPcs
  <2>3. OneRowPerAgent' /\ RowsAreSound' /\ StartedIsOfThisLife' /\ AgentsAreSound'
    BY <1>1, <2>1 DEF OneRowPerAgent, RowsAreSound, StartedIsOfThisLife, Up, AgentsAreSound
  <2>4. PickerHolds'
    BY <1>3, <2>1 DEF PickerHolds, Holding
  <2>5. asked[k] <= jobs[k].attempts + crashes /\ jobs[k].attempts < MaxAttempts
    BY <1>1, <1>2, <1>3, <2>1 DEF BudgetIsKept, RowsAreSound, Open, Holding
  <2>6. BudgetIsKept'
    <3> SUFFICES ASSUME NEW j \in JobIds
                 PROVE  /\ asked'[j] <= MaxAttempts + crashes
                        /\ jobs[j].status = "requested" =>
                             asked'[j] <= jobs[j].attempts + crashes + Open(j)'
                        /\ jobs[j].status = "absent" => asked'[j] = 0
      BY <2>1 DEF BudgetIsKept
    <3>1. CASE j = k
      <4>1. asked'[k] = asked[k] + 1 /\ Open(k)' = 1
        BY <1>1, <2>1 DEF TypeOK, Open, Holding
      <4> QED BY <3>1, <4>1, <2>1, <2>5, <1>2, <1>3
    <3>2. CASE j # k
      <4>1. asked'[j] = asked[j] /\ Open(j)' = 0 /\ Open(j) = 0
        BY <1>1, <2>1, <3>2 DEF TypeOK, Open, Holding
      <4> QED BY <4>1, <1>1, <1>2, <1>3 DEF BudgetIsKept
    <3> QED BY <3>1, <3>2
  <2>7. MessagesAreSound'
    BY <1>1, <2>1 DEF MessagesAreSound, Silent, Holding
  <2>8. ClaimsAreSound'
    BY <1>1, <2>1 DEF ClaimsAreSound, ClaimIsSound
  <2> QED BY <2>2, <2>3, <2>4, <2>6, <2>7, <2>8 DEF Ledger
<1>6. CASE PickerRefetch \/ PickerStoreError
  <2>1. /\ ppc \in {"refetch", "fail"} /\ pjob \in JobIds
        /\ UNCHANGED <<jobs, agents, notes, told, asked, crashes, repeats>>
        /\ errors' \in Nat
    BY <1>1, <1>6 DEF PickerRefetch, PickerStoreError, PickerHolds, Holding, budgets, TypeOK
  <2>2. \/ jobs[pjob].status = "requested" /\ ppc' = "fail" /\ pjob' = pjob
        \/ jobs[pjob].status # "requested" /\ ppc' = "poll" /\ pjob' = NoJob
        \/ ppc' = "dead" /\ pjob' = NoJob
    BY <1>6, <2>1 DEF PickerRefetch, PickerStoreError, Back
  <2>3. TypeOK'
    BY <1>1, <2>1, <2>2 DEF TypeOK, PickerPcs
  <2>4. OneRowPerAgent' /\ RowsAreSound' /\ StartedIsOfThisLife' /\ AgentsAreSound'
    BY <1>1, <2>1, <2>2 DEF OneRowPerAgent, RowsAreSound, StartedIsOfThisLife, Up, AgentsAreSound
  <2>5. PickerHolds'
    BY <1>3, <2>1, <2>2 DEF PickerHolds, Holding
  <2>6. BudgetIsKept'
    <3>1. \A j \in JobIds : jobs[j].status = "requested" => Open(j) <= Open(j)'
      BY <2>1, <2>2 DEF Open, Holding
    <3>2. \A j \in JobIds : Open(j) \in {0, 1} /\ Open(j)' \in {0, 1}
      BY DEF Open
    <3> HIDE DEF Open
    <3> QED BY <3>1, <3>2, <1>1, <1>2, <1>3, <2>1 DEF BudgetIsKept
  <2>7. MessagesAreSound'
    BY <1>1, <2>1, <2>2 DEF MessagesAreSound, Silent, Holding
  <2>8. ClaimsAreSound'
    BY <1>1, <2>1 DEF ClaimsAreSound, ClaimIsSound
  <2> QED BY <2>3, <2>4, <2>5, <2>6, <2>7, <2>8 DEF Ledger
<1>7. CASE PickerFail
  <2>1. /\ ppc = "fail" /\ pjob \in JobIds
        /\ UNCHANGED <<agents, notes, told, asked, crashes, errors, repeats>>
        /\ jobs' = [jobs EXCEPT ![pjob] = DispatchFailed(jobs[pjob])]
    BY <1>1, <1>7 DEF PickerFail, PickerHolds, Holding, budgets, TypeOK
  <2> DEFINE r == DispatchFailed(jobs[pjob])
  <2>2. /\ r \in Row /\ r.agent = jobs[pjob].agent
        /\ jobs[pjob].status # "requested" => r = jobs[pjob]
        /\ jobs[pjob].status = "requested" =>
             /\ r.attempts = jobs[pjob].attempts + 1
             /\ r.status = IF jobs[pjob].attempts + 1 >= MaxAttempts THEN "error" ELSE "requested"
    BY <1>1, <1>2, <2>1, DispatchFailedRow DEF RowsAreSound
  <2>3. /\ jobs' \in [JobIds -> Row]
        /\ jobs'[pjob] = r
        /\ \A j \in JobIds : j # pjob => jobs'[j] = jobs[j]
        /\ \A j \in JobIds : jobs'[j].agent = jobs[j].agent
    BY <1>1, <2>1, <2>2 DEF TypeOK
  <2> HIDE DEF r
  <2>4. \/ r.status = "error" /\ ppc' = "notify" /\ pjob' = pjob
        \/ r.status # "error" /\ ppc' = "poll" /\ pjob' = NoJob
    BY <1>7, <2>3 DEF PickerFail, Back
  <2>5. TypeOK'
    BY <1>1, <2>1, <2>3, <2>4 DEF TypeOK, PickerPcs
  <2>6. OneRowPerAgent'
    BY <1>1, <2>3 DEF OneRowPerAgent
  <2>7. \A j \in JobIds : jobs'[j].status = "started" => jobs[j].status = "started"
    BY <2>2, <2>3
  <2>8. StartedIsOfThisLife' /\ AgentsAreSound'
    BY <1>1, <2>1, <2>3, <2>4, <2>7 DEF StartedIsOfThisLife, Up, AgentsAreSound
  <2>9. RowsAreSound'
    <3>1. jobs[pjob].status = "requested" => jobs[pjob].agent = NoAgent
      BY <1>1, <2>1 DEF RowsAreSound
    <3>2. r.attempts \in 0..MaxAttempts
      BY <2>2 DEF Row
    <3>3. /\ r.status \in {"absent", "requested", "error"} => r.agent = NoAgent
          /\ r.status = "started" => r.agent # NoAgent
          /\ r.status = "requested" => r.attempts < MaxAttempts
      <4>1. CASE jobs[pjob].status = "requested"
        BY <4>1, <3>1, <3>2, <2>1, <2>2, <1>2, <1>3
      <4>2. CASE jobs[pjob].status # "requested"
        BY <4>2, <1>1, <2>1, <2>2 DEF RowsAreSound
      <4> QED BY <4>1, <4>2
    <3> QED BY <3>3, <1>1, <2>1, <2>3 DEF RowsAreSound
  <2>10. PickerHolds'
    BY <1>3, <2>1, <2>4 DEF PickerHolds, Holding
  <2>11. BudgetIsKept'
    <3>1. /\ Open(pjob) = 1
          /\ \A j \in JobIds : j # pjob => Open(j) = 0
          /\ \A j \in JobIds : Open(j)' = 0
      BY <2>1, <2>4 DEF Open, Holding
    <3>2. jobs'[pjob].status = "requested" => asked[pjob] <= r.attempts + crashes
      BY <1>1, <1>2, <1>3, <2>1, <2>2, <2>3, <3>1 DEF BudgetIsKept
    <3>3. jobs'[pjob].status = "absent" => jobs[pjob].status = "absent"
      BY <2>2, <2>3
    <3>4. r.attempts \in 0..MaxAttempts
      BY <2>2 DEF Row
    <3> HIDE DEF Open
    <3> QED BY <1>1, <1>2, <1>3, <2>1, <2>3, <3>1, <3>2, <3>3, <3>4 DEF BudgetIsKept
  <2>12. MessagesAreSound'
    <3>1. \A j \in JobIds : Silent(j)' <=> Silent(j)
      BY <2>1, <2>3 DEF Silent
    <3>2. \A j \in JobIds : jobs[j].status = "error" => jobs'[j].status = "error"
      BY <2>2, <2>3
    <3>3. ppc' = "notify" => jobs'[pjob].status = "error" /\ told[pjob] = 0
      <4> SUFFICES ASSUME r.status = "error"
                   PROVE  told[pjob] = 0
        BY <2>3, <2>4
      <4>1. CASE jobs[pjob].status = "requested"
        <5>1. jobs[pjob].agent = NoAgent
          BY <4>1, <1>1, <2>1 DEF RowsAreSound
        <5> QED BY <5>1, <4>1, <1>1, <2>1 DEF MessagesAreSound, Silent
      <4>2. CASE jobs[pjob].status # "requested"
        BY <4>2, <1>1, <2>1, <2>2 DEF PickerHolds, Holding
      <4> QED BY <4>1, <4>2
    <3> QED BY <1>1, <1>4, <2>1, <2>4, <3>1, <3>2, <3>3 DEF MessagesAreSound, Holding
  <2>13. ClaimsAreSound'
    <3>1. \A j \in JobIds : /\ jobs'[j].status = "requested" => jobs[j].status = "requested"
                            /\ jobs'[j].status = "absent" => jobs[j].status = "absent"
      BY <2>2, <2>3
    <3> SUFFICES ASSUME NEW a \in Agents
                 PROVE  ClaimIsSound(agents[a], a)'
      BY DEF ClaimsAreSound
    <3>2. agents[a].req \in JobIds \cup {NoJob} /\ ClaimIsSound(agents[a], a)
      BY <1>1 DEF TypeOK, Agent, ClaimsAreSound
    <3> QED BY <2>1, <2>3, <3>1, <3>2 DEF ClaimIsSound
  <2> QED BY <2>5, <2>6, <2>8, <2>9, <2>10, <2>11, <2>12, <2>13 DEF Ledger
<1>8. CASE PickerNotify
  <2>1. /\ ppc = "notify" /\ ppc' = "poll" /\ pjob' = NoJob /\ pjob \in JobIds
        /\ UNCHANGED <<jobs, agents, notes, asked, crashes, errors, repeats>>
        /\ told' \in {told, [told EXCEPT ![pjob] = told[pjob] + 1]}
    BY <1>1, <1>8 DEF PickerNotify, Back, PickerHolds, budgets, TypeOK
  <2>2. told' \in [JobIds -> Nat]
    BY <1>1, <1>2, <2>1 DEF TypeOK
  <2>3. jobs[pjob].status = "error" /\ told[pjob] = 0
    BY <1>1, <2>1 DEF MessagesAreSound
  <2>4. \A j \in JobIds : told'[j] = told[j] \/ (j = pjob /\ told'[j] = 1)
    BY <1>1, <2>1, <2>3 DEF TypeOK
  <2>5. pjob \notin notes
    BY <1>1, <1>2, <2>1, <2>3, SubagentAssumption DEF MessagesAreSound, Silent, RowsAreSound
  <2>6. TypeOK'
    BY <1>1, <2>1, <2>2 DEF TypeOK, PickerPcs
  <2>7. OneRowPerAgent' /\ RowsAreSound' /\ StartedIsOfThisLife' /\ AgentsAreSound'
    BY <1>1, <2>1 DEF OneRowPerAgent, RowsAreSound, StartedIsOfThisLife, Up, AgentsAreSound
  <2>8. PickerHolds' /\ BudgetIsKept'
    BY <1>1, <2>1 DEF PickerHolds, BudgetIsKept, Open, Holding
  <2>9. MessagesAreSound'
    BY <1>1, <1>4, <2>1, <2>3, <2>4, <2>5 DEF MessagesAreSound, Silent, Holding
  <2>10. ClaimsAreSound'
    BY <1>1, <2>1 DEF ClaimsAreSound, ClaimIsSound
  <2> QED BY <2>6, <2>7, <2>8, <2>9, <2>10 DEF Ledger
<1> QED BY <1>5, <1>6, <1>7, <1>8, PickerReturnKeepsLedger DEF Picker

-----------------------------------------------------------------------------
(* SubagentStart: the claim of the requested row, or a row of its own.     *)
LEMMA StartKeepsLedger ==
  ASSUME Ledger, NEW a \in Agents, StartClaim(a) \/ StartInsert(a)
  PROVE  Ledger'
<1>1. /\ AgentsAreSound /\ ClaimsAreSound
      /\ PickerHolds /\ BudgetIsKept /\ MessagesAreSound
      /\ OneRowPerAgent /\ StartedIsOfThisLife /\ RowsAreSound /\ TypeOK
  BY DEF Ledger
<1>2. /\ agents \in [Agents -> Agent] /\ agents[a] \in Agent /\ ClaimIsSound(agents[a], a)
      /\ NoAgent \notin Agents /\ MaxAttempts \in Nat \ {0} /\ crashes \in Nat
      /\ notes \subseteq JobIds
  BY <1>1, SubagentAssumption DEF TypeOK, ClaimsAreSound
<1>3. \A k \in JobIds : /\ jobs[k] \in Row
                        /\ jobs[k].agent \in Agents \cup {NoAgent} /\ asked[k] \in Nat
                        /\ jobs[k].attempts \in 0..MaxAttempts
  BY <1>1 DEF TypeOK, Row
<1>4. /\ UNCHANGED <<notes, told, ppc, pjob, asked, crashes, errors, repeats>>
      /\ agents[a].start \in {"claim", "insert"} /\ ppc # "off"
  BY <1>1 DEF StartClaim, StartInsert, pickerVars, budgets, AgentsAreSound
<1>5. ASSUME NEW y \in {"insert", "done"}, agents' = [agents EXCEPT ![a].start = y],
             UNCHANGED jobs,
             y = "insert" => \/ agents[a].req = NoJob
                            \/ jobs[agents[a].req].status # "requested"
      PROVE  Ledger'
  <2> DEFINE q == [agents[a] EXCEPT !.start = y]
  <2>1. q \in Agent /\ q.start = y /\ q.stop = agents[a].stop /\ q.req = agents[a].req
    BY <1>2 DEF Agent
  <2>2. agents' = [agents EXCEPT ![a] = q]
    BY <1>5
  <2> HIDE DEF q
  <2>3. ClaimIsSound(q, a)
    BY <1>2, <1>5, <2>1 DEF ClaimIsSound
  <2> QED BY <1>1, <1>4, <1>5, <2>1, <2>2, <2>3, OneAgentMoves DEF TypeOK
<1>6. ASSUME NEW k \in JobIds, NEW row \in Row,
             jobs' = [jobs EXCEPT ![k] = row],
             row.status = "started", row.agent = a,
             agents' = [agents EXCEPT ![a].start = "done"],
             jobs[k].agent = NoAgent, jobs[k].status \in {"absent", "requested"},
             ~\E j \in JobIds : jobs[j].agent = a,
             agents[a].req \in JobIds => \/ agents[a].req = k
                                        \/ jobs[agents[a].req].status # "requested"
      PROVE  Ledger'
  <2>1. /\ agents'[a].start = "done" /\ agents'[a].stop = agents[a].stop
        /\ agents'[a].req = agents[a].req /\ agents'[a].live = agents[a].live
        /\ agents'[a] \in Agent
        /\ \A b \in Agents : b # a => agents'[b] = agents[b]
        /\ agents' \in [Agents -> Agent]
    BY <1>2, <1>6 DEF Agent
  <2>2. /\ jobs' \in [JobIds -> Row] /\ jobs'[k] = row
        /\ \A j \in JobIds : j # k => jobs'[j] = jobs[j]
    BY <1>1, <1>6 DEF TypeOK
  <2>3. TypeOK'
    BY <1>1, <1>4, <2>1, <2>2 DEF TypeOK
  <2>4. OneRowPerAgent'
    BY <1>1, <1>6, <2>2 DEF OneRowPerAgent
  <2>5. StartedIsOfThisLife'
    BY <1>1, <1>4, <1>6, <2>1, <2>2 DEF StartedIsOfThisLife, Up
  <2>6. RowsAreSound'
    BY <1>1, <1>2, <1>6, <2>2 DEF RowsAreSound
  <2>7. AgentsAreSound'
    <3>1. \A j \in JobIds : jobs'[j].agent # NoAgent =>
                            agents'[jobs'[j].agent].start # "none"
      BY <1>1, <1>3, <1>6, <2>1, <2>2 DEF AgentsAreSound
    <3> QED BY <3>1, <1>1, <1>4, <2>1 DEF AgentsAreSound
  <2>8. ClaimsAreSound'
    <3> SUFFICES ASSUME NEW b \in Agents
                 PROVE  ClaimIsSound(agents[b], b)'
      BY DEF ClaimsAreSound
    <3>1. agents[b].req \in JobIds \cup {NoJob} /\ ClaimIsSound(agents[b], b)
      BY <1>1 DEF TypeOK, Agent, ClaimsAreSound
    <3>2. jobs[k].status = "requested" => jobs'[k].status # "requested"
      BY <1>6, <2>2
    <3>3. CASE b = a
      <4>1. agents[a].req # NoJob =>
              jobs'[agents[a].req].status \notin {"absent", "requested"}
        <5>1. CASE agents[a].req = k
          BY <5>1, <1>6, <2>2
        <5>2. CASE agents[a].req # k /\ agents[a].req # NoJob
          BY <5>2, <1>6, <3>1, <3>3, <2>2 DEF ClaimIsSound
        <5> QED BY <5>1, <5>2
      <4> QED BY <4>1, <3>3, <2>1 DEF ClaimIsSound
    <3>4. CASE b # a
      <4>1. agents'[b] = agents[b]
        BY <2>1, <3>4
      <4>2. \A j \in JobIds : jobs'[j].agent = b => jobs[j].agent = b
        BY <1>6, <2>2, <3>4
      <4> QED BY <3>1, <4>1, <4>2, <1>6, <2>2 DEF ClaimIsSound
    <3> QED BY <3>3, <3>4
  <2>9. PickerHolds'
    BY <1>1, <1>4, <1>6, <2>2 DEF PickerHolds, Holding
  <2>10. BudgetIsKept'
    BY <1>1, <1>3, <1>4, <1>6, <2>2 DEF BudgetIsKept, Open, Holding
  <2>11. MessagesAreSound'
    <3>1. \A j \in JobIds : Silent(j) => Silent(j)' /\ j # k
      BY <1>3, <1>6, <2>1, <2>2 DEF Silent
    <3>2. ppc = "notify" => pjob \in JobIds
      BY <1>1 DEF PickerHolds, TypeOK
    <3> QED BY <1>1, <1>2, <1>4, <1>6, <2>2, <3>1, <3>2 DEF MessagesAreSound
  <2> QED BY <2>3, <2>4, <2>5, <2>6, <2>7, <2>8, <2>9, <2>10, <2>11 DEF Ledger
<1>7. CASE StartClaim(a)
  <2> DEFINE k == agents[a].req
  <2>1. k \in JobIds /\ agents[a].start = "claim"
    BY <1>2, <1>7 DEF StartClaim, ClaimIsSound, Agent
  <2>2. CASE Claimable(jobs[k])
    <3> DEFINE row == [jobs[k] EXCEPT !.status = "started", !.agent = a]
    <3>1. row \in Row /\ row.status = "started" /\ row.agent = a
      BY <1>3, <2>1 DEF Row
    <3>2. /\ jobs' = [jobs EXCEPT ![k] = row]
          /\ agents' = [agents EXCEPT ![a].start = "done"]
      BY <1>7, <2>2 DEF StartClaim
    <3>3. jobs[k].agent = NoAgent /\ jobs[k].status = "requested"
      BY <2>2 DEF Claimable
    <3>4. ~\E j \in JobIds : jobs[j].agent = a
      BY <1>2, <2>1, <3>3, JobIdsArePositive DEF ClaimIsSound
    <3> HIDE DEF row
    <3> QED BY <1>6, <2>1, <3>1, <3>2, <3>3, <3>4
  <2>3. CASE ~Claimable(jobs[k])
    <3>1. jobs[k].status # "requested"
      BY <1>1, <2>1, <2>3 DEF Claimable, RowsAreSound
    <3>2. agents' = [agents EXCEPT ![a].start = "insert"] /\ UNCHANGED jobs
      BY <1>7, <2>3 DEF StartClaim
    <3> QED BY <1>5, <3>1, <3>2
  <2> QED BY <2>2, <2>3
<1>8. CASE StartInsert(a)
  <2>1. agents[a].start = "insert" /\ agents' = [agents EXCEPT ![a].start = "done"]
    BY <1>8 DEF StartInsert
  <2>2. CASE RowsOf(a) # {}
    <3>1. UNCHANGED jobs
      BY <1>8, <2>2 DEF StartInsert
    <3> QED BY <1>5, <2>1, <3>1
  <2>3. CASE RowsOf(a) = {}
    <3>1. PICK k \in JobIds :
            NextId(k) /\ jobs' = [jobs EXCEPT ![k] = NewRow("started", a)]
      BY <1>8, <2>3 DEF StartInsert
    <3>2. /\ NewRow("started", a) \in Row
          /\ NewRow("started", a).status = "started" /\ NewRow("started", a).agent = a
      BY NewRowFields
    <3>3. jobs[k].status = "absent" /\ jobs[k].agent = NoAgent
      BY <1>1, <3>1 DEF NextId, RowsAreSound
    <3>4. ~\E j \in JobIds : jobs[j].agent = a
      BY <2>3 DEF RowsOf
    <3>5. agents[a].req \in JobIds => jobs[agents[a].req].status # "requested"
      BY <1>2, <2>1, JobIdsArePositive DEF ClaimIsSound
    <3> QED BY <1>6, <2>1, <3>1, <3>2, <3>3, <3>4, <3>5
  <2> QED BY <2>2, <2>3
<1> QED BY <1>7, <1>8

(* SubagentStop records how the run ended.                                 *)
LEMMA StopRecordKeepsLedger ==
  ASSUME Ledger, NEW a \in Agents, StopRecord(a)
  PROVE  Ledger'
<1>1. /\ AgentsAreSound /\ ClaimsAreSound
      /\ PickerHolds /\ BudgetIsKept /\ MessagesAreSound
      /\ OneRowPerAgent /\ StartedIsOfThisLife /\ RowsAreSound /\ TypeOK
  BY DEF Ledger
<1>2. /\ agents \in [Agents -> Agent] /\ agents[a] \in Agent /\ "completed" \in Verdicts
      /\ agents[a].stop = "record" /\ ppc # "off" /\ agents[a].verdict \in Verdicts
      /\ UNCHANGED <<notes, told, ppc, pjob, asked, crashes, errors, repeats>>
      /\ notes \subseteq JobIds
  BY <1>1 DEF TypeOK, StopRecord, pickerVars, budgets, AgentsAreSound, Agent, Verdicts
<1>3. ASSUME NEW k \in JobIds
      PROVE  /\ jobs'[k] \in Row /\ jobs'[k].agent = jobs[k].agent
             /\ jobs'[k].attempts = jobs[k].attempts
             /\ \/ jobs'[k].status = jobs[k].status
                \/ jobs[k].status = "started" /\ jobs'[k].status \in Verdicts
             /\ jobs[k].agent \in Agents \cup {NoAgent}
  <2> DEFINE r == Finished(jobs[k], a, agents[a].verdict)
  <2>1. jobs[k] \in Row
    BY <1>1 DEF TypeOK
  <2>2. /\ r \in Row /\ r.agent = jobs[k].agent /\ r.attempts = jobs[k].attempts
        /\ r.status = IF jobs[k].agent = a /\ jobs[k].status \in {"started", "requested"}
                      THEN agents[a].verdict ELSE jobs[k].status
    BY <1>2, <2>1, FinishedRow
  <2>3. jobs'[k] = r
    BY DEF StopRecord
  <2>4. jobs[k].status = "requested" => jobs[k].agent # a
    BY <1>1, SubagentAssumption DEF RowsAreSound
  <2> HIDE DEF r
  <2> QED BY <1>2, <2>1, <2>2, <2>3, <2>4 DEF Row
<1>4. jobs' \in [JobIds -> Row]
  <2>1. jobs' = [k \in JobIds |-> jobs'[k]]
    BY DEF StopRecord
  <2> QED BY <2>1, <1>3
<1>5. /\ agents'[a].start = agents[a].start /\ agents'[a].stop = "fetch"
      /\ agents'[a].req = agents[a].req /\ agents'[a].live = agents[a].live
      /\ agents'[a] \in Agent
      /\ \A b \in Agents : b # a => agents'[b] = agents[b]
      /\ agents' \in [Agents -> Agent]
  BY <1>2 DEF StopRecord, Agent
<1>6. TypeOK'
  BY <1>1, <1>2, <1>4, <1>5 DEF TypeOK
<1>7. OneRowPerAgent'
  BY <1>1, <1>3 DEF OneRowPerAgent
<1>8. \A k \in JobIds : /\ jobs'[k].status = "started" => jobs[k].status = "started"
                        /\ jobs'[k].status = "error" <=> jobs[k].status = "error"
                        /\ jobs'[k].status = "requested" <=> jobs[k].status = "requested"
                        /\ jobs'[k].status = "absent" <=> jobs[k].status = "absent"
  BY <1>3 DEF Verdicts
<1>9. StartedIsOfThisLife'
  BY <1>1, <1>2, <1>3, <1>5, <1>8 DEF StartedIsOfThisLife, Up
<1>10. RowsAreSound'
  BY <1>1, <1>3, <1>8 DEF RowsAreSound
<1>11. AgentsAreSound'
  <2>1. \A j \in JobIds : jobs'[j].agent # NoAgent =>
                          agents'[jobs'[j].agent].start # "none"
    BY <1>1, <1>3, <1>5 DEF AgentsAreSound
  <2> QED BY <2>1, <1>1, <1>2, <1>5 DEF AgentsAreSound
<1>12. ClaimsAreSound'
  <2> SUFFICES ASSUME NEW b \in Agents
               PROVE  ClaimIsSound(agents[b], b)'
    BY DEF ClaimsAreSound
  <2>1. agents[b].req \in JobIds \cup {NoJob} /\ ClaimIsSound(agents[b], b)
    BY <1>1 DEF TypeOK, Agent, ClaimsAreSound
  <2>2. agents'[b].req = agents[b].req /\ agents'[b].start = agents[b].start
    BY <1>5
  <2> QED BY <2>1, <2>2, <1>3, <1>8 DEF ClaimIsSound
<1>13. PickerHolds'
  <2>1. pjob # NoJob => pjob \in JobIds
    BY <1>1 DEF TypeOK
  <2> QED BY <2>1, <1>1, <1>2, <1>8 DEF PickerHolds, Holding
<1>14. BudgetIsKept'
  BY <1>1, <1>2, <1>3, <1>8 DEF BudgetIsKept, Open, Holding
<1>15. MessagesAreSound'
  <2>1. \A j \in JobIds : Silent(j) => Silent(j)'
    BY <1>2, <1>3, <1>5 DEF Silent
  <2>2. ppc = "notify" => pjob \in JobIds
    BY <1>1 DEF PickerHolds, TypeOK
  <2> QED BY <1>1, <1>2, <1>8, <2>1, <2>2 DEF MessagesAreSound
<1> QED BY <1>6, <1>7, <1>9, <1>10, <1>11, <1>12, <1>13, <1>14, <1>15 DEF Ledger

(* SubagentStop hands the message over, and the message goes out.          *)
LEMMA MessageKeepsLedger ==
  ASSUME Ledger, (\E a \in Agents : StopFetch(a)) \/ (\E k \in JobIds : Deliver(k))
  PROVE  Ledger'
<1>1. /\ AgentsAreSound /\ ClaimsAreSound
      /\ PickerHolds /\ BudgetIsKept /\ MessagesAreSound
      /\ OneRowPerAgent /\ StartedIsOfThisLife /\ RowsAreSound /\ TypeOK
  BY DEF Ledger
<1>2. \A k \in JobIds : jobs[k].agent \in Agents \cup {NoAgent} /\ told[k] \in Nat
  BY <1>1 DEF TypeOK, Row
<1>3. ASSUME NEW a \in Agents, StopFetch(a)
      PROVE  Ledger'
  <2>1. /\ agents \in [Agents -> Agent] /\ agents[a] \in Agent
        /\ agents[a].stop = "fetch" /\ notes' = notes \cup RowsOf(a) /\ ppc # "off"
        /\ agents' = [agents EXCEPT ![a].stop = "done", ![a].live = FALSE]
        /\ UNCHANGED <<jobs, told, ppc, pjob, asked, crashes, errors, repeats>>
    BY <1>1, <1>3 DEF StopFetch, TypeOK, AgentsAreSound, pickerVars, budgets
  <2>2. /\ agents'[a].start = agents[a].start /\ agents'[a].stop = "done"
        /\ agents'[a].req = agents[a].req /\ ~agents'[a].live
        /\ agents'[a] \in Agent
        /\ \A b \in Agents : b # a => agents'[b] = agents[b]
        /\ agents' \in [Agents -> Agent]
    BY <2>1 DEF Agent
  <2>3. RowsOf(a) \subseteq JobIds
    BY DEF RowsOf
  <2>4. TypeOK'
    BY <1>1, <2>1, <2>2, <2>3 DEF TypeOK
  <2>5. OneRowPerAgent' /\ RowsAreSound' /\ PickerHolds' /\ BudgetIsKept'
    BY <1>1, <2>1 DEF OneRowPerAgent, RowsAreSound, PickerHolds, BudgetIsKept, Open, Holding
  <2>6. StartedIsOfThisLife'
    BY <1>1, <2>1, <2>2 DEF StartedIsOfThisLife, Up
  <2>7. AgentsAreSound'
    BY <1>1, <1>2, <2>1, <2>2 DEF AgentsAreSound
  <2>8. ClaimsAreSound'
    BY <1>1, <2>1, <2>2 DEF ClaimsAreSound, ClaimIsSound
  <2>9. MessagesAreSound'
    <3>1. \A k \in JobIds : Silent(k) => Silent(k)'
      BY <1>2, <2>1, <2>2 DEF Silent
    <3>2. \A k \in RowsOf(a) : Silent(k)' /\ told[k] = 0
      <4> SUFFICES ASSUME NEW k \in JobIds, jobs[k].agent = a
                   PROVE  Silent(k)' /\ told[k] = 0
        BY DEF RowsOf
      <4>1. ~Silent(k) /\ jobs[k].status # "error"
        BY <1>1, <2>1, SubagentAssumption DEF Silent, RowsAreSound
      <4>2. Silent(k)'
        BY <2>1, <2>2, SubagentAssumption DEF Silent
      <4> QED BY <4>1, <4>2, <1>1 DEF MessagesAreSound
    <3>3. notes \subseteq JobIds
      BY <1>1 DEF TypeOK
    <3> QED BY <1>1, <2>1, <3>1, <3>2, <3>3 DEF MessagesAreSound
  <2> QED BY <2>4, <2>5, <2>6, <2>7, <2>8, <2>9 DEF Ledger
<1>4. ASSUME NEW k \in JobIds, Deliver(k)
      PROVE  Ledger'
  <2>1. /\ k \in notes /\ notes' = notes \ {k}
        /\ told' \in {told, [told EXCEPT ![k] = told[k] + 1]}
        /\ UNCHANGED <<jobs, agents, ppc, pjob, asked, crashes, errors, repeats>>
    BY <1>4 DEF Deliver, pickerVars, budgets
  <2>2. told[k] = 0 /\ Silent(k)
    BY <1>1, <2>1 DEF MessagesAreSound
  <2>3. told' \in [JobIds -> Nat] /\ notes' \subseteq JobIds
    BY <1>1, <1>2, <2>1 DEF TypeOK
  <2>4. \A j \in JobIds : told'[j] = told[j] \/ (j = k /\ told'[j] = 1)
    BY <1>1, <2>1, <2>2 DEF TypeOK
  <2>5. TypeOK'
    BY <1>1, <2>1, <2>3 DEF TypeOK
  <2>6. /\ OneRowPerAgent' /\ RowsAreSound' /\ PickerHolds' /\ BudgetIsKept'
        /\ StartedIsOfThisLife' /\ AgentsAreSound'
    BY <1>1, <2>1 DEF OneRowPerAgent, RowsAreSound, PickerHolds, BudgetIsKept, Open, Holding,
                      StartedIsOfThisLife, Up, AgentsAreSound
  <2>7. ClaimsAreSound'
    BY <1>1, <2>1 DEF ClaimsAreSound, ClaimIsSound
  <2>8. MessagesAreSound'
    <3>1. ppc = "notify" => pjob \in JobIds /\ pjob # k
      BY <1>1, <2>2 DEF PickerHolds, TypeOK, MessagesAreSound, Silent, RowsAreSound
    <3>2. \A j \in JobIds : Silent(j)' <=> Silent(j)
      BY <2>1 DEF Silent
    <3>3. notes \subseteq JobIds
      BY <1>1 DEF TypeOK
    <3> QED BY <1>1, <2>1, <2>2, <2>4, <3>1, <3>2, <3>3 DEF MessagesAreSound
  <2> QED BY <2>5, <2>6, <2>7, <2>8 DEF Ledger
<1> QED BY <1>3, <1>4

-----------------------------------------------------------------------------
(* Every step keeps the ledger, and so does a step of nobody.              *)
LEMMA LedgerStep == Ledger /\ [Next]_vars => Ledger'
<1> SUFFICES ASSUME Ledger, [Next]_vars
             PROVE  Ledger'
  OBVIOUS
<1>1. CASE Owner
  BY <1>1, OwnerKeepsLedger
<1>2. CASE Picker
  BY <1>2, PickerKeepsLedger
<1>3. CASE Fault
  BY <1>3, PickerKeepsLedger, CrashKeepsLedger, HookStoreErrorKeepsLedger DEF Fault
<1>4. CASE Boot
  BY <1>4, BootKeepsLedger
<1>5. CASE \E a \in Agents : Hook(a)
  BY <1>5, StartKeepsLedger, StopRecordKeepsLedger, MessageKeepsLedger DEF Hook
<1>6. CASE \E a \in Agents : Sdk(a)
  BY <1>6, SdkKeepsLedger
<1>7. CASE \E k \in JobIds : Deliver(k)
  BY <1>7, MessageKeepsLedger
<1>8. CASE UNCHANGED vars
  <2>1. UNCHANGED <<jobs, ppc, pjob, agents, notes, told, asked, crashes, errors, repeats>>
    BY <1>8 DEF vars
  <2> QED BY <2>1 DEF Ledger, TypeOK, OneRowPerAgent, StartedIsOfThisLife, Up, RowsAreSound,
                      AgentsAreSound, ClaimsAreSound, ClaimIsSound, PickerHolds, Holding,
                      BudgetIsKept, Open, MessagesAreSound, Silent
<1> QED BY <1>1, <1>2, <1>3, <1>4, <1>5, <1>6, <1>7, <1>8 DEF Next

(* Ledger holds in every reachable state: for any number of agents,        *)
(* requests, attempts, crashes, store errors and repeated hooks, rows,     *)
(* agents, picker and messages agree with one another.                     *)
THEOREM LedgerInvariant == Spec => []Ledger
<1> QED BY LedgerInit, LedgerStep, PTL DEF Spec

(* Every variable of the ledger has its type, whatever the bounds.         *)
THEOREM TypeCorrect == Spec => []TypeOK
<1>1. Ledger => TypeOK
  BY DEF Ledger
<1> QED BY <1>1, LedgerInvariant, PTL

(* No agent ever has two rows: the partial UNIQUE index on sdk_agent_id    *)
(* and the claim's own guard leave no interleaving of claims, repeated     *)
(* starts and inserts that would need it twice.                            *)
THEOREM AgentHasOneRow == Spec => []OneRowPerAgent
<1>1. Ledger => OneRowPerAgent
  BY DEF Ledger
<1> QED BY <1>1, LedgerInvariant, PTL

(* A row that says started while the daemon is up belongs to an agent of   *)
(* this life: recover_orphans runs before anything can start again.        *)
THEOREM NoGhosts == Spec => []StartedIsOfThisLife
<1>1. Ledger => StartedIsOfThisLife
  BY DEF Ledger
<1> QED BY <1>1, LedgerInvariant, PTL

(* mark_dispatch_failed never writes off a row that a subagent has taken.  *)
THEOREM WriteOffIsSafe == Spec => []ErrorNeverStarted
<1>1. Ledger => ErrorNeverStarted
  BY DEF Ledger, RowsAreSound, ErrorNeverStarted
<1> QED BY <1>1, LedgerInvariant, PTL

(* The picker dispatches a request at most MaxAttempts times, and once     *)
(* more for each crash that cut a dispatch short.                          *)
THEOREM DispatchesAreBounded == Spec => []DispatchBudget
<1>1. Ledger => DispatchBudget
  BY DEF Ledger, BudgetIsKept, DispatchBudget
<1> QED BY <1>1, LedgerInvariant, PTL

-----------------------------------------------------------------------------
(* The column status of the table.                                         *)
Column == [k \in JobIds |-> jobs[k].status]

(* Rewriting one row rewrites one entry of the column.                     *)
LEMMA ColumnMove ==
  ASSUME Ledger, NEW k \in JobIds, NEW r, jobs' = [jobs EXCEPT ![k] = r]
  PROVE  Column' = [Column EXCEPT ![k] = r.status]
<1>1. jobs \in [JobIds -> Row]
  BY DEF Ledger, TypeOK
<1> QED BY <1>1 DEF Column

(* A change of one status the promise allows is one of its steps.          *)
LEMMA OneRowSteps ==
  ASSUME Ledger, NEW k \in JobIds, NEW to, UNCHANGED told,
         Column' = [Column EXCEPT ![k] = to],
         \/ Column[k] = "absent" /\ to \in {"requested", "started"}
         \/ Column[k] = "requested" /\ to \in {"started", "stopped", "error"}
         \/ Column[k] = "started" /\ to \in {"completed", "stopped"}
  PROVE  Lifecycle!Next
<1>1. Lifecycle!Ask(k) \/ Lifecycle!Appear(k) \/ Lifecycle!Start(k)
        \/ Lifecycle!Withdraw(k) \/ Lifecycle!Finish(k)
  BY DEF Lifecycle!Ask, Lifecycle!Appear, Lifecycle!Start, Lifecycle!Withdraw,
         Lifecycle!Finish, Lifecycle!Move, Column
<1> QED BY <1>1 DEF Lifecycle!Next

(* Every step of the ledger is one the promise allows, or leaves status    *)
(* and told as they were.                                                  *)
LEMMA LifecycleStep ==
  ASSUME Ledger, Ledger', [Next]_vars
  PROVE  [Lifecycle!Next]_(Lifecycle!vars)
<1>1. /\ jobs \in [JobIds -> Row] /\ told \in [JobIds -> Nat] /\ RowsAreSound
      /\ agents \in [Agents -> Agent] /\ AgentsAreSound /\ ClaimsAreSound
      /\ OneRowPerAgent /\ PickerHolds /\ MessagesAreSound /\ pjob \in JobIds \cup {NoJob}
  BY DEF Ledger, TypeOK
<1>2. ASSUME UNCHANGED <<jobs, told>>
      PROVE  UNCHANGED Lifecycle!vars
  BY <1>2 DEF Lifecycle!vars
<1>3. ASSUME UNCHANGED told, Column' = Column
      PROVE  UNCHANGED Lifecycle!vars
  BY <1>3 DEF Lifecycle!vars, Column
<1>4. ASSUME NEW k \in JobIds, Spawn(k)
      PROVE  Lifecycle!Next
  <2>1. Column' = [Column EXCEPT ![k] = "requested"]
    <3>1. NewRow("requested", NoAgent).status = "requested"
      BY NewRowFields
    <3>2. jobs' = [jobs EXCEPT ![k] = NewRow("requested", NoAgent)]
      BY <1>4 DEF Spawn
    <3> QED BY <3>1, <3>2, ColumnMove
  <2>2. Column[k] = "absent" /\ UNCHANGED told
    BY <1>4 DEF Spawn, NextId, Column
  <2> QED BY <2>1, <2>2, OneRowSteps
<1>5. ASSUME NEW k \in JobIds, Cancel(k)
      PROVE  [Lifecycle!Next]_(Lifecycle!vars)
  <2>1. Column' = [Column EXCEPT ![k] = Cancelled(jobs[k]).status] /\ UNCHANGED told
    BY <1>5, ColumnMove DEF Cancel
  <2>2. Cancelled(jobs[k]).status =
          IF jobs[k].status = "requested" THEN "stopped" ELSE jobs[k].status
    BY <1>1, CancelledRow
  <2>3. CASE jobs[k].status = "requested"
    BY <2>1, <2>2, <2>3, OneRowSteps DEF Column
  <2>4. CASE jobs[k].status # "requested"
    BY <2>1, <2>2, <2>4, <1>3 DEF Column
  <2> QED BY <2>3, <2>4
<1>6. CASE PickerFail
  <2>1. /\ ppc = "fail" /\ pjob \in JobIds /\ UNCHANGED told
        /\ jobs' = [jobs EXCEPT ![pjob] = DispatchFailed(jobs[pjob])]
    BY <1>1, <1>6 DEF PickerFail, PickerHolds, Holding
  <2>2. Column' = [Column EXCEPT ![pjob] = DispatchFailed(jobs[pjob]).status]
    BY <2>1, ColumnMove
  <2>3. /\ jobs[pjob] \in Row
        /\ jobs[pjob].status = "requested" => jobs[pjob].attempts < MaxAttempts
    BY <1>1, <2>1 DEF RowsAreSound
  <2>4. \/ DispatchFailed(jobs[pjob]).status = jobs[pjob].status
        \/ /\ jobs[pjob].status = "requested"
           /\ DispatchFailed(jobs[pjob]).status = "error"
    BY <2>3, DispatchFailedRow
  <2>5. CASE DispatchFailed(jobs[pjob]).status = jobs[pjob].status
    BY <2>1, <2>2, <2>5, <1>3 DEF Column
  <2>6. CASE /\ jobs[pjob].status = "requested"
             /\ DispatchFailed(jobs[pjob]).status = "error"
    BY <2>1, <2>2, <2>6, OneRowSteps DEF Column
  <2> QED BY <2>4, <2>5, <2>6
<1>7. ASSUME NEW k \in JobIds, told[k] = 0, jobs[k].status \notin {"absent", "requested"},
             UNCHANGED jobs, told' \in {told, [told EXCEPT ![k] = told[k] + 1]}
      PROVE  [Lifecycle!Next]_(Lifecycle!vars)
  <2>1. CASE told' = told
    BY <2>1, <1>2, <1>7
  <2>2. CASE told' = [told EXCEPT ![k] = told[k] + 1]
    <3>1. told' = [told EXCEPT ![k] = 1]
      BY <2>2, <1>7, <1>1
    <3>2. Lifecycle!Tell(k)
      BY <3>1, <1>7 DEF Lifecycle!Tell
    <3> QED BY <3>2 DEF Lifecycle!Next
  <2> QED BY <2>1, <2>2, <1>7
<1>8. CASE PickerNotify
  <2>1. ppc = "notify" /\ pjob \in JobIds /\ UNCHANGED jobs
        /\ told' \in {told, [told EXCEPT ![pjob] = told[pjob] + 1]}
    BY <1>1, <1>8 DEF PickerNotify, PickerHolds
  <2>2. told[pjob] = 0 /\ jobs[pjob].status = "error"
    BY <1>1, <2>1 DEF MessagesAreSound
  <2> QED BY <2>1, <2>2, <1>7
<1>9. ASSUME NEW k \in JobIds, Deliver(k)
      PROVE  [Lifecycle!Next]_(Lifecycle!vars)
  <2>1. /\ k \in notes /\ UNCHANGED jobs
        /\ told' \in {told, [told EXCEPT ![k] = told[k] + 1]}
    BY <1>9 DEF Deliver
  <2>2. told[k] = 0 /\ jobs[k].status \notin {"absent", "requested"}
    BY <1>1, <2>1 DEF MessagesAreSound, Silent, RowsAreSound
  <2> QED BY <2>1, <2>2, <1>7
<1>10. ASSUME NEW a \in Agents, StartClaim(a)
       PROVE  [Lifecycle!Next]_(Lifecycle!vars)
  <2> DEFINE k == agents[a].req
  <2>1. k \in JobIds /\ UNCHANGED told
    BY <1>1, <1>10 DEF StartClaim, ClaimsAreSound, ClaimIsSound, Agent
  <2>2. CASE Claimable(jobs[k])
    <3> DEFINE row == [jobs[k] EXCEPT !.status = "started", !.agent = a]
    <3>1. row.status = "started"
      BY <1>1, <2>1 DEF Row
    <3>2. jobs' = [jobs EXCEPT ![k] = row] /\ jobs[k].status = "requested"
      BY <1>10, <2>2 DEF StartClaim, Claimable
    <3> HIDE DEF row
    <3>3. Column' = [Column EXCEPT ![k] = "started"]
      BY <2>1, <3>1, <3>2, ColumnMove
    <3> QED BY <2>1, <3>2, <3>3, OneRowSteps DEF Column
  <2>3. CASE ~Claimable(jobs[k])
    BY <1>2, <1>10, <2>3 DEF StartClaim
  <2> QED BY <2>2, <2>3
<1>11. ASSUME NEW a \in Agents, StartInsert(a)
       PROVE  [Lifecycle!Next]_(Lifecycle!vars)
  <2>1. CASE RowsOf(a) # {}
    BY <1>2, <1>11, <2>1 DEF StartInsert
  <2>2. CASE RowsOf(a) = {}
    <3>1. PICK k \in JobIds :
            NextId(k) /\ jobs' = [jobs EXCEPT ![k] = NewRow("started", a)]
      BY <1>11, <2>2 DEF StartInsert
    <3>2. NewRow("started", a).status = "started"
      BY NewRowFields
    <3>3. Column' = [Column EXCEPT ![k] = "started"]
      BY <3>1, <3>2, ColumnMove
    <3>4. Column[k] = "absent" /\ UNCHANGED told
      BY <3>1, <1>11 DEF NextId, Column, StartInsert
    <3> QED BY <3>3, <3>4, OneRowSteps
  <2> QED BY <2>1, <2>2
<1>12. ASSUME NEW a \in Agents, StopRecord(a)
       PROVE  [Lifecycle!Next]_(Lifecycle!vars)
  <2> DEFINE v == agents[a].verdict
  <2>1. v \in Verdicts /\ UNCHANGED told
    BY <1>1, <1>12 DEF Agent, StopRecord
  <2>2. ASSUME NEW k \in JobIds
        PROVE  Column'[k] = IF jobs[k].agent = a /\ jobs[k].status = "started"
                            THEN v ELSE Column[k]
    <3>1. jobs'[k] = Finished(jobs[k], a, v)
      BY <1>12 DEF StopRecord
    <3>2. Finished(jobs[k], a, v).status =
            IF jobs[k].agent = a /\ jobs[k].status \in {"started", "requested"}
            THEN v ELSE jobs[k].status
      BY <1>1, <2>1, FinishedRow
    <3>3. jobs[k].status = "requested" => jobs[k].agent # a
      BY <1>1, SubagentAssumption DEF RowsAreSound
    <3> QED BY <3>1, <3>2, <3>3 DEF Column
  <2>3. CASE \A k \in JobIds : ~(jobs[k].agent = a /\ jobs[k].status = "started")
    <3>1. Column' = Column
      BY <2>2, <2>3 DEF Column
    <3> QED BY <3>1, <2>1, <1>3
  <2>4. CASE \E k \in JobIds : jobs[k].agent = a /\ jobs[k].status = "started"
    <3>1. PICK k \in JobIds : jobs[k].agent = a /\ jobs[k].status = "started"
      BY <2>4
    <3>2. \A j \in JobIds : jobs[j].agent = a => j = k
      BY <1>1, <3>1, SubagentAssumption DEF OneRowPerAgent
    <3>3. Column' = [Column EXCEPT ![k] = v]
      <4>1. \A j \in JobIds : Column'[j] = [Column EXCEPT ![k] = v][j]
        BY <2>2, <3>1, <3>2 DEF Column
      <4> QED BY <4>1 DEF Column
    <3> QED BY <2>1, <3>1, <3>3, OneRowSteps DEF Column, Verdicts
  <2> QED BY <2>3, <2>4
<1>13. CASE Boot
  <2>1. PICK youngest \in JobIds :
          jobs' = [k \in JobIds |-> Recovered(jobs[k], k < youngest)]
    BY <1>13 DEF Boot
  <2>0. PICK stale \in SUBSET JobIds :
          stale = {k \in JobIds : k < youngest /\ jobs[k].status = "requested"}
    OBVIOUS
  <2>2. ASSUME NEW k \in JobIds
        PROVE  Column'[k] = IF Column[k] = "started" THEN "interrupted"
                            ELSE IF k \in stale THEN "dropped" ELSE Column[k]
    <3>1. jobs'[k] = Recovered(jobs[k], k < youngest) /\ (k < youngest) \in BOOLEAN
      BY <2>1, JobIdsArePositive
    <3>2. Recovered(jobs[k], k < youngest).status =
            IF jobs[k].status = "started"
            THEN IF jobs[k].agent = NoAgent THEN "dropped" ELSE "interrupted"
            ELSE IF jobs[k].status = "requested" /\ k < youngest THEN "dropped"
            ELSE jobs[k].status
      BY <1>1, <3>1, RecoveredRow
    <3>3. jobs[k].status = "started" => jobs[k].agent # NoAgent
      BY <1>1 DEF RowsAreSound
    <3> QED BY <2>0, <3>1, <3>2, <3>3 DEF Column
  <2>3. UNCHANGED told
    BY <1>13 DEF Boot
  <2>4. Lifecycle!Recover(stale)
    BY <2>0, <2>2, <2>3 DEF Lifecycle!Recover, Column
  <2> QED BY <2>4 DEF Lifecycle!Next
<1>14. CASE \/ \E k \in JobIds : PickerTake(k)
            \/ PickerReturn \/ PickerRefetch \/ PickerStoreError \/ Crash
            \/ \E a \in Agents : StopFetch(a) \/ HookStoreError(a) \/ Sdk(a)
  <2>1. UNCHANGED <<jobs, told>>
    BY <1>14 DEF PickerTake, PickerReturn, PickerRefetch, PickerStoreError, Crash, StopFetch,
                 HookStoreError, Sdk, PickedTask, NativeTask, Begin, StartAgain, StopRead,
                 SessionLost
  <2> QED BY <2>1, <1>2
<1>15. CASE Owner
  BY <1>4, <1>5, <1>15 DEF Owner
<1>16. CASE Picker
  BY <1>6, <1>8, <1>14, <1>16 DEF Picker
<1>17. CASE Fault
  BY <1>14, <1>17 DEF Fault
<1>18. ASSUME NEW a \in Agents, Hook(a) \/ Sdk(a)
       PROVE  [Lifecycle!Next]_(Lifecycle!vars)
  BY <1>10, <1>11, <1>12, <1>14, <1>18 DEF Hook
<1>19. CASE UNCHANGED vars
  <2>1. UNCHANGED <<jobs, told>>
    BY <1>19 DEF vars
  <2> QED BY <2>1, <1>2
<1>20. CASE Next
  BY <1>9, <1>13, <1>15, <1>16, <1>17, <1>18, <1>20 DEF Next
<1> QED BY <1>19, <1>20

(* Whatever the hooks, the picker, the owner and the crashes do, each job  *)
(* lives the life JobLifecycle promises: started at most once, ended once  *)
(* for good, and reported at most once and never while it still waits.     *)
THEOREM LedgerImplementsLifecycle == Spec => LifecycleSpec
<1>1. Init => Lifecycle!Init
  BY NewRowFields DEF Init, Lifecycle!Init, NoRow
<1>2. Ledger /\ Ledger' /\ [Next]_vars => [Lifecycle!Next]_(Lifecycle!vars)
  BY LifecycleStep
<1> QED BY <1>1, <1>2, LedgerInvariant, PTL DEF Spec, LifecycleSpec, Lifecycle!Spec
=============================================================================
