--------------------------- MODULE AgentQueue_proofs ---------------------------
(***************************************************************************)
(* What the queue of model calls guarantees for any payloads and any       *)
(* number of agents.  An answer stands because a request is looked at for  *)
(* an answer when an agent starts to write one, so that only agents that   *)
(* write at the same moment can replace each other's answers.              *)
(***************************************************************************)
EXTENDS AgentQueue, TLAPS

Calls ==
    [at : {"idle"}] \cup [at : {"polling", "missed"}, id : stable_request_id]
        \cup [at : {"loaded", "validating"}, id : stable_request_id, is : {"valid", "invalid"}]

QueueType ==
    /\ request \in [stable_request_id -> {"none", "pending", "done"}]
    /\ answer \in [stable_request_id -> {"none", "valid", "invalid"}]
    /\ call \in Calls
    /\ agent = [a \in Agents |-> agent[a]]
    /\ \A a \in Agents : agent[a].at # "idle" => agent[a] = [at |-> agent[a].at, id |-> agent[a].id]

Writes(a, id) == agent[a].at = "writing" /\ agent[a].id = id

(* Who writes to a request that has its answer already, or that another    *)
(* agent writes to, writes to one in overlap.                              *)
WritersOverlap ==
    \A id \in stable_request_id, a \in Agents :
        /\ Writes(a, id) /\ Answered(id) => id \in overlap
        /\ \A b \in Agents \ {a} : Writes(a, id) /\ Writes(b, id) => id \in overlap

QueueInv == QueueType /\ WaitingIsVisible /\ WritersOverlap

(* The queue starts empty.                                                 *)
LEMMA QueueInit == Init => QueueInv
  BY DEF Init, QueueInv, QueueType, Calls, NoCall, Resting, WaitingIsVisible, WritersOverlap, Writes, Answered

(* Issuing a request leaves it pending or answered.                        *)
LEMMA RequestIssued ==
    ASSUME QueueType, NEW id \in stable_request_id, create_request(id)
    PROVE  /\ request' \in [stable_request_id -> {"none", "pending", "done"}]
           /\ request'[id] = "pending" \/ Answered(id)
  BY DEF QueueType, create_request, NeedsRequest, Answered

(* The steps of the caller.                                                *)
LEMMA CallerStep ==
    ASSUME QueueInv,
           \/ \E p \in Payloads : complete_structured(p)
           \/ load_answer \/ AgentTimeout \/ mark_done \/ complete_validated \/ Kill
           \/ \E id \in stable_request_id : ClearAnswer(id)
    PROVE  QueueType' /\ WaitingIsVisible'
<1> USE DEF QueueInv, QueueType, WaitingIsVisible, Answered, Calls
<1>1. ASSUME NEW p \in Payloads, complete_structured(p) PROVE QueueType' /\ WaitingIsVisible'
  <2>1. <<p, "first">> \in stable_request_id
    BY DEF stable_request_id
  <2> QED  BY <1>1, <2>1, RequestIssued DEF complete_structured
<1>2. CASE load_answer
  BY <1>2 DEF load_answer, fileVars
<1>3. CASE AgentTimeout
  BY <1>3 DEF AgentTimeout, fileVars, NoCall
<1>4. CASE mark_done
  BY <1>4 DEF mark_done
<1>5. CASE complete_validated
  <2>1. CASE call' = NoCall /\ UNCHANGED request
    BY <1>5, <2>1 DEF complete_validated, NoCall
  <2>2. CASE create_request(<<call.id[1], "retry">>) /\ call' = [at |-> "polling", id |-> <<call.id[1], "retry">>]
    <3>1. <<call.id[1], "retry">> \in stable_request_id
      BY <1>5 DEF complete_validated, stable_request_id
    <3> QED  BY <1>5, <2>2, <3>1, RequestIssued DEF complete_validated
  <2> QED  BY <1>5, <2>1, <2>2 DEF complete_validated
<1>6. CASE Kill
  BY <1>6 DEF Kill, fileVars, NoCall
<1>7. ASSUME NEW id \in stable_request_id, ClearAnswer(id) PROVE QueueType' /\ WaitingIsVisible'
  BY <1>7 DEF ClearAnswer
<1> QED  BY <1>1, <1>2, <1>3, <1>4, <1>5, <1>6, <1>7

(* The steps of the caller and of the user leave the writers as they are.  *)
LEMMA CallerWriters ==
    ASSUME QueueInv, UNCHANGED <<agent, overlap>>,
           \A id \in stable_request_id : Answered(id)' => Answered(id)
    PROVE  WritersOverlap'
  BY DEF QueueInv, WritersOverlap, Writes

(* The steps of an agent.                                                  *)
LEMMA AgentStep ==
    ASSUME QueueInv, NEW a \in Agents, next_pending(a) \/ acw_answer_request(a) \/ write_answer(a)
    PROVE  QueueInv'
<1>0. QueueType /\ WaitingIsVisible /\ WritersOverlap
  BY DEF QueueInv
<1>1. CASE next_pending(a)
  <2>1. QueueType' /\ WaitingIsVisible'
    BY <1>0, <1>1 DEF QueueType, next_pending, fileVars, WaitingIsVisible, Answered
  <2>2. \A b \in Agents, id \in stable_request_id : Writes(b, id)' => Writes(b, id)
    BY <1>0, <1>1 DEF next_pending, Writes, QueueType
  <2> QED  BY <1>0, <1>1, <2>1, <2>2 DEF QueueInv, next_pending, fileVars, WritersOverlap, Answered
<1>2. CASE acw_answer_request(a)
  <2> DEFINE id == agent[a].id
             Others == \A b \in Agents \ {a} : agent'[b] = agent[b]
  <2>1. CASE MayAnswer(id)
    <3>1. agent'[a] = [at |-> "writing", id |-> id] /\ Others
      BY <1>0, <1>2, <2>1 DEF acw_answer_request, QueueType
    <3>2. /\ overlap \subseteq overlap'
          /\ \A b \in Agents : Writes(b, id) => id \in overlap'
      BY <1>2, <2>1 DEF acw_answer_request, Writes
    <3>3. QueueType' /\ WaitingIsVisible'
      BY <1>0, <1>2, <2>1, <3>1 DEF acw_answer_request, fileVars, WaitingIsVisible, Answered, QueueType
    <3>4. ~Answered(id) /\ answer' = answer
      BY <1>2, <2>1 DEF acw_answer_request, fileVars, MayAnswer
    <3>5. WritersOverlap'
      BY <1>0, <3>1, <3>2, <3>4 DEF WritersOverlap, Writes, Answered
    <3> QED  BY <3>3, <3>5 DEF QueueInv
  <2>2. CASE ~MayAnswer(id)
    <3>1. agent'[a] = [at |-> "idle"] /\ Others /\ overlap' = overlap
      BY <1>0, <1>2, <2>2 DEF acw_answer_request, QueueType, Resting
    <3>2. QueueType' /\ WaitingIsVisible'
      BY <1>0, <1>2, <2>2, <3>1 DEF acw_answer_request, fileVars, WaitingIsVisible, Answered, QueueType, Resting
    <3>3. WritersOverlap'
      BY <1>0, <1>2, <3>1 DEF acw_answer_request, fileVars, WritersOverlap, Writes, Answered
    <3> QED  BY <3>2, <3>3 DEF QueueInv
  <2> QED  BY <2>1, <2>2
<1>3. CASE write_answer(a)
  <2>1. PICK is \in {"valid", "invalid"} : answer' = [answer EXCEPT ![agent[a].id] = is]
    BY <1>3 DEF write_answer
  <2>2. /\ agent[a].at = "writing" /\ agent' = [agent EXCEPT ![a] = Resting]
        /\ UNCHANGED <<request, issued, call>>
    BY <1>3 DEF write_answer
  <2>3. agent'[a] = [at |-> "idle"] /\ \A b \in Agents \ {a} : agent'[b] = agent[b]
    BY <1>0, <2>2 DEF Resting, QueueType
  <2>4. QueueType' /\ WaitingIsVisible'
    <3>1. /\ answer' \in [stable_request_id -> {"none", "valid", "invalid"}]
          /\ \A id \in stable_request_id : Answered(id) => Answered(id)'
      BY <1>0, <2>1 DEF QueueType, Answered
    <3>2. agent' = [b \in Agents |-> agent'[b]]
      BY <1>0, <2>2 DEF QueueType
    <3>3. \A b \in Agents : agent'[b].at # "idle" => agent'[b] = [at |-> agent'[b].at, id |-> agent'[b].id]
      BY <1>0, <2>3 DEF QueueType
    <3>4. call.at \in {"polling", "missed"} => call.id \in stable_request_id
      BY <1>0 DEF QueueType, Calls
    <3>5. QueueType'
      BY <1>0, <2>2, <3>1, <3>2, <3>3 DEF QueueType
    <3> QED  BY <1>0, <2>2, <3>1, <3>4, <3>5 DEF WaitingIsVisible
  <2>5. \A b \in Agents, id \in stable_request_id : Writes(b, id)' => Writes(b, id) /\ b # a
    BY <2>3 DEF Writes
  <2>6. \A id \in stable_request_id : Answered(id)' => Answered(id) \/ Writes(a, id)
    BY <1>0, <2>1, <2>2 DEF Answered, Writes, QueueType
  <2>7. \A id \in overlap, b \in Agents : Writes(b, id)' => id \in overlap'
    <3>1. SUFFICES ASSUME NEW id \in overlap, NEW b \in Agents, agent'[b].at = "writing", agent'[b].id = id
                   PROVE  id \in overlap'
      BY DEF Writes
    <3>2. overlap' = overlap \ {x \in overlap : \A c \in Agents : agent'[c].at # "writing" \/ agent'[c].id # x}
      BY <1>3 DEF write_answer
    <3> QED  BY ONLY <3>1, <3>2
  <2>8. WritersOverlap'
    BY <1>0, <2>5, <2>6, <2>7 DEF WritersOverlap
  <2> QED  BY <2>4, <2>8 DEF QueueInv
<1> QED  BY <1>1, <1>2, <1>3

(* Every step keeps the invariant.                                         *)
LEMMA QueueStep == QueueInv /\ [Next]_vars => QueueInv'
<1>1. SUFFICES ASSUME QueueInv, [Next]_vars PROVE QueueInv'
  OBVIOUS
<1>2. CASE \/ \E p \in Payloads : complete_structured(p)
           \/ load_answer \/ AgentTimeout \/ mark_done \/ complete_validated \/ Kill
           \/ \E id \in stable_request_id : ClearAnswer(id)
  <2>1. UNCHANGED <<agent, overlap>>
    BY <1>2 DEF complete_structured, load_answer, AgentTimeout, mark_done, complete_validated, Kill, ClearAnswer
  <2>2. \A id \in stable_request_id : Answered(id)' => Answered(id)
    BY <1>1, <1>2 DEF complete_structured, load_answer, AgentTimeout, mark_done, complete_validated, Kill,
                      ClearAnswer, Answered, fileVars, QueueInv, QueueType
  <2> QED  BY <1>1, <1>2, <2>1, <2>2, CallerStep, CallerWriters DEF QueueInv
<1>3. CASE UNCHANGED vars
  BY <1>1, <1>3 DEF vars, QueueInv, QueueType, WaitingIsVisible, WritersOverlap, Writes, Answered
<1> QED  BY <1>1, <1>2, <1>3, AgentStep DEF Next

(* No call waits for an answer that nobody is asked for                    *)
(* (core/llm/agent_provider.py, create_request and mark_done).             *)
THEOREM WaitingAlwaysVisible == Spec => []WaitingIsVisible
<1>1. QueueInv => WaitingIsVisible
  BY DEF QueueInv
<1> QED  BY <1>1, QueueInit, QueueStep, PTL DEF Spec

(* An answer that is there is replaced only by an agent that was answering *)
(* at the same moment (core/llm/agent_provider.py, write_answer).          *)
THEOREM AnswersStand == Spec => AnswerStands
<1>1. QueueInv /\ [Next]_vars =>
        [\A id \in stable_request_id :
             Answered(id) /\ answer'[id] \notin {"none", answer[id]} => id \in overlap]_vars
  <2>1. SUFFICES ASSUME QueueInv, Next, NEW id \in stable_request_id,
                        Answered(id), answer'[id] \notin {"none", answer[id]}
                 PROVE  id \in overlap
    OBVIOUS
  <2>2. PICK a \in Agents : write_answer(a)
    BY <2>1 DEF Next, complete_structured, load_answer, AgentTimeout, mark_done, complete_validated, next_pending,
                acw_answer_request, Kill, ClearAnswer, fileVars, QueueInv, QueueType
  <2>3. Writes(a, id)
    BY <2>1, <2>2 DEF write_answer, Writes, QueueInv, QueueType
  <2> QED  BY <2>1, <2>3 DEF QueueInv, WritersOverlap
<1> QED  BY <1>1, QueueInit, QueueStep, PTL DEF Spec, AnswerStands
================================================================================
