------------------------------ MODULE AgentChat ------------------------------
(***************************************************************************)
(* The chat loop of app/agent.py: chats of one principal run side by side, *)
(* each asking the model, running the tools it calls for and asking again. *)
(* Tools that reach the broker are paid for from the principal's window of *)
(* the durable rate limiter (RateWindows), which all the chats share.      *)
(***************************************************************************)
EXTENDS Naturals, Sequences

CONSTANTS Chats, max_turns,
          ReadLimit,      \* broker reads of a window
          MaxCandidates,  \* 4 in the code
          MaxBlocks       \* tool calls of one answer (bound)

AgentAssumption ==
    /\ max_turns \in Nat \ {0}
    /\ {ReadLimit, MaxCandidates, MaxBlocks} \subseteq Nat

VARIABLES
    chat,      \* the chats
    used,      \* broker reads paid for from the window
    reads,     \* broker reads made                   (history)
    decisions  \* decision rows of each chat

vars == <<chat, used, reads, decisions>>

(* What a tool does: reads the broker, drafts a candidate (which reads it  *)
(* too), or reads the database.                                            *)
Tools == {"market", "draft", "local"}

Fresh == [pc |-> "new", turn |-> 0, blocks |-> <<>>, dispatched |-> 0, drafts |-> 0,
          stop |-> "none"]
Stops == {"none", "tool_call_budget_exhausted", "broker_read_rate_limited",
          "broker_read_unavailable"}

TypeOK ==
    /\ \A c \in Chats :
         /\ chat[c].pc \in {"new", "ask", "tool", "dispatch", "record", "done"}
         /\ chat[c].turn \in 0..max_turns
         /\ chat[c].stop \in Stops
         /\ Len(chat[c].blocks) <= MaxBlocks
    /\ used \in 0..ReadLimit
    /\ decisions \in [Chats -> {0, 1}]

Init ==
    /\ chat = [c \in Chats |-> Fresh]
    /\ used = 0
    /\ reads = 0
    /\ decisions = [c \in Chats |-> 0]

Begin(c) ==
    /\ chat[c].pc = "new"
    /\ chat' = [chat EXCEPT ![c].pc = "ask"]
    /\ UNCHANGED <<used, reads, decisions>>

(* A turn: the model fails, answers with text, or calls for tools.  After  *)
(* the last turn the loop is over.                                         *)
create(c) ==
    /\ chat[c].pc = "ask"
    /\ IF chat[c].turn = max_turns
       THEN chat' = [chat EXCEPT ![c].pc = "record"]
       ELSE \/ chat' = [chat EXCEPT ![c].pc = "record", ![c].turn = @ + 1]
            \/ \E n \in 0..MaxBlocks : \E b \in [1..n -> Tools] :
                 chat' = [chat EXCEPT ![c].pc = "tool", ![c].turn = @ + 1, ![c].blocks = b]
    /\ UNCHANGED <<used, reads, decisions>>

-----------------------------------------------------------------------------

requires_broker_read(tool) == tool \in {"market", "draft"}

Answered(c) == [chat[c] EXCEPT !.blocks = Tail(@), !.pc = "tool"]

HasBudget(c) == chat[c].dispatched < max_turns

(* One block: answered with the code of an earlier stop, beyond the        *)
(* budget, one candidate too many, a payment that is refused or cannot be  *)
(* made, or on to the tool.                                                *)
RunBlock(c) ==
    LET ch == chat[c]
        tool == Head(ch.blocks)
        counted == [ch EXCEPT !.dispatched = @ + 1]
        answered == [Answered(c) EXCEPT !.dispatched = counted.dispatched] IN
    /\ ch.pc = "tool"
    /\ ch.blocks # <<>>
    /\ \/ /\ ch.stop # "none"
          /\ chat' = [chat EXCEPT ![c] = Answered(c)]
          /\ UNCHANGED used
       \/ /\ ch.stop = "none" /\ ~HasBudget(c)
          /\ chat' = [chat EXCEPT ![c] =
                        [Answered(c) EXCEPT !.stop = "tool_call_budget_exhausted"]]
          /\ UNCHANGED used
       \/ /\ ch.stop = "none" /\ HasBudget(c)
          /\ tool = "draft" /\ ch.drafts >= MaxCandidates
          /\ chat' = [chat EXCEPT ![c] = answered]
          /\ UNCHANGED used
       \/ /\ ch.stop = "none" /\ HasBudget(c)
          /\ ~(tool = "draft" /\ ch.drafts >= MaxCandidates)
          /\ \/ /\ requires_broker_read(tool) /\ used < ReadLimit
                /\ used' = used + 1
                /\ chat' = [chat EXCEPT ![c] = [counted EXCEPT !.pc = "dispatch"]]
             \/ /\ requires_broker_read(tool) /\ used >= ReadLimit
                /\ chat' = [chat EXCEPT ![c] =
                              [answered EXCEPT !.stop = "broker_read_rate_limited"]]
                /\ UNCHANGED used
             \/ /\ requires_broker_read(tool)
                /\ chat' = [chat EXCEPT ![c] =
                              [answered EXCEPT !.stop = "broker_read_unavailable"]]
                /\ UNCHANGED used
             \/ /\ ~requires_broker_read(tool)
                /\ chat' = [chat EXCEPT ![c] = [counted EXCEPT !.pc = "dispatch"]]
                /\ UNCHANGED used
    /\ UNCHANGED <<reads, decisions>>

(* The tool runs: a draft comes back signed and valid, or fails. *)
dispatch(c) ==
    LET tool == Head(chat[c].blocks) IN
    /\ chat[c].pc = "dispatch"
    /\ \/ chat' = [chat EXCEPT ![c] = Answered(c)]
       \/ tool = "draft" /\ chat' = [chat EXCEPT ![c] = [Answered(c) EXCEPT !.drafts = @ + 1]]
    /\ reads' = IF tool = "local" THEN reads ELSE reads + 1
    /\ UNCHANGED <<used, decisions>>

(* The answers go back to the model, unless something stopped the chat or  *)
(* the budget is used up.                                                  *)
AfterTools(c) ==
    /\ chat[c].pc = "tool"
    /\ chat[c].blocks = <<>>
    /\ chat' = [chat EXCEPT ![c].pc =
                  IF chat[c].stop # "none" \/ chat[c].dispatched >= max_turns
                  THEN "record" ELSE "ask"]
    /\ UNCHANGED <<used, reads, decisions>>

(* Every chat leaves one decision row, or fails where it is written. *)
Record(c) ==
    /\ chat[c].pc = "record"
    /\ chat' = [chat EXCEPT ![c].pc = "done"]
    /\ decisions' \in {decisions, [decisions EXCEPT ![c] = @ + 1]}
    /\ UNCHANGED <<used, reads>>

Step(c) ==
    \/ Begin(c) \/ create(c) \/ RunBlock(c) \/ dispatch(c) \/ AfterTools(c) \/ Record(c)

Next == \E c \in Chats : Step(c)

Spec == Init /\ [][Next]_vars

(* Every call a chat makes ends: the provider and the broker answer or     *)
(* time out.                                                               *)
Fairness == \A c \in Chats : WF_vars(Step(c))

-----------------------------------------------------------------------------
(* Every broker read of every chat has been paid for from the window they  *)
(* share, drafts included, so that together they stay within the limit.    *)
BrokerReadsPaid == reads <= used

(* Every chat comes to its end, even with a model that never stops calling *)
(* for tools.                                                              *)
ChatEnds == \A c \in Chats : <>(chat[c].pc = "done")

=============================================================================
