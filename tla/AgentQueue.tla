------------------------------- MODULE AgentQueue -------------------------------
(***************************************************************************)
(* Model calls that the agent of the user answers (core/llm/               *)
(* agent_provider.py, mcp/tools/agent_bridge.py): requests and answers are *)
(* files named by a hash of the call.  The caller is the process that      *)
(* holds the workspace lock; agents are MCP clients that work at the same  *)
(* time.  A response is valid or not for the validator of its call site,   *)
(* and complete_validated asks once more with the error in the payload.    *)
(***************************************************************************)
EXTENDS Naturals, Sequences, FiniteSets, SequencesExt

CONSTANTS
    Payloads,    \* what the runs ask for: call sites with their payloads
    Agents,      \* MCP clients
    MaxFaults    \* bound on kills of the caller and answers the user removes

ASSUME QueueAssumption == Payloads # {} /\ Agents # {} /\ MaxFaults \in Nat

VARIABLES
    request,   \* requests/<id>.json: status, or "none"
    issued,    \* ids of the pending requests in the order of created_at
    answer,    \* answers/<id>.json: "valid", "invalid" or "none"
    call,      \* the call in progress
    agent,     \* what each agent is doing
    outcome,   \* history: how the first call for a payload that got its answers ended
    overlap,   \* history: ids that two agents are writing an answer to at once
    faults

vars == <<request, issued, answer, call, agent, outcome, overlap, faults>>
fileVars == <<request, issued, answer>>

\* The hash of call site, instructions, payload and schema; the second call of
\* complete_validated has the validation error in its payload.
stable_request_id == Payloads \X {"first", "retry"}
NoCall == [at |-> "idle"]
Resting == [at |-> "idle"]
Answered(id) == answer[id] # "none"

Init ==
    /\ request = [id \in stable_request_id |-> "none"]
    /\ issued = <<>>
    /\ answer = [id \in stable_request_id |-> "none"]
    /\ call = NoCall
    /\ agent = [a \in Agents |-> Resting]
    /\ outcome = [p \in Payloads |-> "none"]
    /\ overlap = {}
    /\ faults = 0

NeedsFirstRequest(id) == request[id] = "none"
\* A request that is pending or answered is left as it is; one that was done and
\* whose answer is gone is issued again.
NeedsRequest(id) == request[id] = "none" \/ (request[id] = "done" /\ ~Answered(id))

create_request(id) ==
    IF NeedsRequest(id)
    THEN /\ request' = [request EXCEPT ![id] = "pending"]
         /\ issued' = Append(issued, id)
    ELSE UNCHANGED <<request, issued>>

complete_structured(p) ==
    /\ call.at = "idle"
    /\ create_request(<<p, "first">>)
    /\ call' = [at |-> "polling", id |-> <<p, "first">>]
    /\ UNCHANGED <<answer, agent, outcome, overlap, faults>>

\* One poll; the caller sleeps after one that found nothing.
load_answer ==
    /\ call.at \in {"polling", "missed"}
    /\ call' = IF Answered(call.id) THEN [at |-> "loaded", id |-> call.id, is |-> answer[call.id]]
               ELSE [call EXCEPT !.at = "missed"]
    /\ UNCHANGED <<fileVars, agent, outcome, overlap, faults>>

TimeoutCleansUp ==
    /\ call.at = "missed"
    /\ call' = NoCall
    /\ request' = [request EXCEPT ![call.id] = "none"]
    /\ issued' = Remove(issued, call.id)
    /\ UNCHANGED <<answer, agent, outcome, overlap, faults>>

\* The request stays pending; an answer may have been written since load_answer.
AgentTimeout ==
    /\ call.at = "missed"
    /\ call' = NoCall
    /\ UNCHANGED <<fileVars, agent, outcome, overlap, faults>>

mark_done ==
    /\ call.at = "loaded"
    /\ request' = [request EXCEPT ![call.id] = "done"]
    /\ issued' = Remove(issued, call.id)
    /\ call' = [call EXCEPT !.at = "validating"]
    /\ UNCHANGED <<answer, agent, outcome, overlap, faults>>

\* The validator accepts the response, or rejects it: then the caller asks again
\* with the error, and gives up when the second response is rejected too.
complete_validated ==
    /\ call.at = "validating"
    /\ LET p == call.id[1] IN
       \/ /\ call.is = "valid" \/ call.id[2] = "retry"
          /\ outcome' = [outcome EXCEPT ![p] = IF @ = "none" THEN call.is ELSE @]
          /\ call' = NoCall
          /\ UNCHANGED <<request, issued>>
       \/ /\ call.is = "invalid" /\ call.id[2] = "first"
          /\ create_request(<<p, "retry">>)
          /\ call' = [at |-> "polling", id |-> <<p, "retry">>]
          /\ UNCHANGED outcome
    /\ UNCHANGED <<answer, agent, overlap, faults>>

--------------------------------------------------------------------------------
(* Agents. *)

\* The oldest request that is pending and has no answer.
next_pending(a) ==
    LET waiting == SelectSeq(issued, LAMBDA id : ~Answered(id)) IN
    /\ agent[a].at = "idle" /\ waiting # <<>>
    /\ agent' = [agent EXCEPT ![a] = [at |-> "working", id |-> Head(waiting)]]
    /\ UNCHANGED <<fileVars, call, outcome, overlap, faults>>

MayAnswerPending(id) == request[id] = "pending"
MayAnswer(id) == request[id] = "pending" /\ ~Answered(id)

\* write_answer checks the request and the answer, ...
acw_answer_request(a) ==
    /\ agent[a].at = "working"
    /\ LET id == agent[a].id IN
       IF MayAnswer(id)
       THEN /\ agent' = [agent EXCEPT ![a].at = "writing"]
            /\ overlap' = IF \E b \in Agents : agent[b].at = "writing" /\ agent[b].id = id
                          THEN overlap \cup {id} ELSE overlap
       ELSE agent' = [agent EXCEPT ![a] = Resting] /\ UNCHANGED overlap
    /\ UNCHANGED <<fileVars, call, outcome, faults>>

\* ... then replaces the file.
write_answer(a) ==
    /\ agent[a].at = "writing"
    /\ \E is \in {"valid", "invalid"} : answer' = [answer EXCEPT ![agent[a].id] = is]
    /\ agent' = [agent EXCEPT ![a] = Resting]
    /\ overlap' = overlap \ {id \in overlap : \A b \in Agents : agent'[b].at # "writing" \/ agent'[b].id # id}
    /\ UNCHANGED <<request, issued, call, outcome, faults>>

--------------------------------------------------------------------------------
\* The caller is killed; the files stay.
Kill ==
    /\ call.at # "idle" /\ faults < MaxFaults
    /\ faults' = faults + 1
    /\ call' = NoCall
    /\ UNCHANGED <<fileVars, agent, outcome, overlap>>

\* The user removes an answer between two runs, to have it given again.
ClearAnswer(id) ==
    /\ call.at = "idle" /\ Answered(id) /\ faults < MaxFaults
    /\ faults' = faults + 1
    /\ answer' = [answer EXCEPT ![id] = "none"]
    /\ UNCHANGED <<request, issued, call, agent, outcome, overlap>>

Next ==
    \/ \E p \in Payloads : complete_structured(p)
    \/ load_answer \/ AgentTimeout \/ mark_done \/ complete_validated
    \/ \E a \in Agents : next_pending(a) \/ acw_answer_request(a) \/ write_answer(a)
    \/ Kill
    \/ \E id \in stable_request_id : ClearAnswer(id)

Spec == Init /\ [][Next]_vars

\* Runs make every call again until it is answered, and agents go on answering;
\* how often a call times out is not bounded.
FairSpec ==
    /\ Spec
    /\ \A p \in Payloads : SF_vars(complete_structured(p))
    /\ WF_vars(load_answer \/ AgentTimeout) /\ WF_vars(mark_done) /\ WF_vars(complete_validated)
    /\ \A a \in Agents : WF_vars(next_pending(a)) /\ WF_vars(acw_answer_request(a)) /\ WF_vars(write_answer(a))

--------------------------------------------------------------------------------
\* While a call waits, an agent can see its request or has answered it: no call
\* waits for an answer that nobody is asked for (create_request, mark_done).
WaitingIsVisible ==
    call.at \in {"polling", "missed"} => request[call.id] = "pending" \/ Answered(call.id)

\* An answer is replaced only by an agent that was answering the same request at
\* the same moment; one that comes later is refused (write_answer).
AnswerStands ==
    [][\A id \in stable_request_id :
          Answered(id) /\ answer'[id] \notin {"none", answer[id]} => id \in overlap]_vars

\* However often a call times out, the answer that comes late serves a later call
\* with the same payload: each call is accepted or rejected in the end.
LateAnswersServe == \A p \in Payloads : <>(outcome[p] # "none")
================================================================================
