----------------------------- MODULE ChatClient -----------------------------
(***************************************************************************)
(* The message the browser shows for a turn: chat.ts applies every frame   *)
(* of a response, from the stream or from a snapshot, to the same draft.   *)
(***************************************************************************)
EXTENDS ChatTurn

Draft == [text |-> 0, steps |-> 0, status |-> "streaming"]

\* The callback of sendMessage.  A step or text frame adds to the draft.
ApplyFrame(draft, f) ==
  CASE f.event = "step" -> [draft EXCEPT !.steps = @ + f.n]
    [] f.event = "text" -> [draft EXCEPT !.text = @ + f.n]
    [] f.event = "text_reset" -> [draft EXCEPT !.text = 0]
    [] f.event = "done" -> [draft EXCEPT !.status = "completed"]
    [] f.event \in {"aborted", "error"} -> [draft EXCEPT !.status = f.event]
    [] OTHER -> draft

Shown(frames) ==
  LET after[i \in 0..Len(frames)] ==
        IF i = 0 THEN Draft ELSE ApplyFrame(after[i - 1], frames[i])
  IN after[Len(frames)]

LiveFrame(e) == [event |-> e, n |-> 1, live |-> TRUE]
AsFrames(events) == [i \in DOMAIN events |-> LiveFrame(events[i])]

\* Replaying the log of a finished turn gives the row that was saved: what the
\* worker accumulated for the database and what it published, event by event,
\* are the same answer.
LogReplaysRow ==
  \A r \in Requests :
    /\ \E i \in DOMAIN stream[r] : stream[r][i] = "done"
    /\ mem[r].saved /\ row[r] # NoRow /\ r \notin clobbered
    => Shown(AsFrames(stream[r])) = row[r]
=============================================================================
