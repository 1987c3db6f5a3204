---------------------------- MODULE ApprovalMenu ----------------------------
(***************************************************************************)
(* The approval menu of the terminal UI (ApprovalViewModel).               *)
(*                                                                         *)
(* A Run that halts hands over the pending calls of a batch.  The menu     *)
(* asks about one call at a time; "always" answers decide calls ahead of   *)
(* the cursor, and the cursor then skips them.  When no call is left, the  *)
(* batch of verdicts is dispatched.                                        *)
(***************************************************************************)
EXTENDS Naturals, Sequences

CONSTANTS
    Runs,       \* the Runs of the Workspace
    None,       \* no Run, no call, no worker
    Calls,      \* the calls a Run may halt on
    ToolName    \* the Tool each call names

Verdict == {"approve", "deny"}
Action == {"approve", "deny", "allow_tool", "allow_all", "deny_reason"}

\* A batch whose decisions are being collected; run = None when there is none.
Batch == [
    run : Runs \union {None},
    calls : Seq(Calls),
    pos : Nat \ {0},
    verdicts : UNION {[cs -> Verdict] : cs \in SUBSET Calls},
    deny : BOOLEAN,     \* deny_reason_mode: the next line typed is the reason
    shown : BOOLEAN     \* the ApprovalPrompt widget is mounted
]

NoVerdicts == [c \in {} |-> "deny"]

NoBatch == [run |-> None, calls |-> <<>>, pos |-> 1, verdicts |-> NoVerdicts,
            deny |-> FALSE, shown |-> FALSE]

\* The call that the cursor is at, None when the batch is decided.
Current(m) == IF m.pos <= Len(m.calls) THEN m.calls[m.pos] ELSE None

\* The verdicts with one for each call of cs.
Decide(verdicts, cs, v) ==
    [c \in DOMAIN verdicts \union cs |-> IF c \in cs THEN v ELSE verdicts[c]]

\* The calls from the cursor on.
Ahead(m) == {m.calls[i] : i \in m.pos..Len(m.calls)}

\* The next call without a verdict, past the end when there is none.
SkipDecided(m) ==
    LET next == {i \in m.pos..Len(m.calls) : m.calls[i] \notin DOMAIN m.verdicts}
    IN [m EXCEPT !.pos = IF next = {} THEN Len(m.calls) + 1
                         ELSE CHOOSE i \in next : \A j \in next : i <= j]

\* The menu for the next undecided call; IsDecided says that there is none.
ShowCurrent(m) ==
    LET n == SkipDecided(m) IN [n EXCEPT !.shown = n.pos <= Len(n.calls) \/ m.shown]

IsDecided(m) == m.run # None /\ m.pos > Len(m.calls)

Begin(r, calls) == ShowCurrent([NoBatch EXCEPT !.run = r, !.calls = calls])

Record(m, v) ==
    ShowCurrent([m EXCEPT !.verdicts = Decide(m.verdicts, {Current(m)}, v), !.deny = FALSE])

DenyReason(m) == [m EXCEPT !.deny = TRUE, !.shown = FALSE]

AllowTool(m) ==
    LET same == {c \in Ahead(m) : ToolName[c] = ToolName[Current(m)]}
    IN ShowCurrent([m EXCEPT !.verdicts = Decide(m.verdicts, same, "approve")])

\* Mutant of AllowAll: the calls already decided too.
AllowAllCalls(m) ==
    ShowCurrent([m EXCEPT !.verdicts =
        Decide(m.verdicts, {m.calls[i] : i \in 1..Len(m.calls)}, "approve")])

AllowAll(m) == ShowCurrent([m EXCEPT !.verdicts = Decide(m.verdicts, Ahead(m), "approve")])

\* What an answer makes of the batch.
Apply(m, action) ==
    CASE action \in Verdict      -> Record(m, action)
      [] action = "allow_tool"   -> AllowTool(m)
      [] action = "allow_all"    -> AllowAll(m)
      [] action = "deny_reason"  -> DenyReason(m)

\* said: the answers given to this batch, each with the call that it answered.
\* A verdict is what the user said of that call: to deny it is to deny this call
\* only, and an approval was given to this call, to its Tool or to everything.
FollowsAnswers(verdicts, said) ==
    \A c \in DOMAIN verdicts :
        IF [call |-> c, action |-> "deny"] \in said
        THEN verdicts[c] = "deny"
        ELSE /\ verdicts[c] = "approve"
             /\ \/ [call |-> c, action |-> "approve"] \in said
                \/ \E s \in said : \/ s.action = "allow_all"
                                   \/ /\ s.action = "allow_tool"
                                      /\ ToolName[s.call] = ToolName[c]
=============================================================================
