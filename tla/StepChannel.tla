----------------------------- MODULE StepChannel -----------------------------
(***************************************************************************)
(* What the delivery of steps promises, without threads, tables, snapshots *)
(* or attempts: the stream is a log of steps that only grows, a reader in  *)
(* touch with the writer has a session, in which it is told of every step  *)
(* from a first one on, one after the other, and each item of data it was  *)
(* promised settles once, by its arrival or its loss, before the step it   *)
(* belongs to is told.                                                     *)
(***************************************************************************)
EXTENDS Integers, Sequences

CONSTANTS
    Readers, Paths,
    Lossy       \* items on their way to a reader that is there may be lost

VARIABLES
    log,        \* what the committed steps wrote: step n is log[n + 1]
    where,      \* a reader is out, ready, staging (inside a call that asks for
                \* a backfill) or gone
    ask,        \* the step from which it last asked for one
    session,    \* the session of each reader
    got, lost   \* items that arrived, and that did not

vars == <<log, where, ask, session, got, lost>>

\* due: for each path subscribed, the first step whose data is promised.
Session(n, D) == [open |-> TRUE, first |-> n, heard |-> <<>>, due |-> D]
NoSession == [open |-> FALSE, first |-> 0, heard |-> <<>>, due |-> <<>>]

NextStep(r) == session[r].first + Len(session[r].heard)
Item(r, n, p) == [to |-> r, step |-> n, path |-> p]
MayLose(r) == Lossy \/ where[r] = "gone"

Init ==
    /\ log = <<>>
    /\ where = [r \in Readers |-> "out"]
    /\ ask = [r \in Readers |-> 0]
    /\ session = [r \in Readers |-> NoSession]
    /\ got = {} /\ lost = {}

\* A step joins the log once every session has heard of all steps before it.
\* Some of its items may have settled by then.
Commit ==
    /\ \A r \in Readers : session[r].open => NextStep(r) = Len(log)
    /\ \E W \in SUBSET Paths :
          /\ log' = Append(log, W)
          /\ (got' \ got) \cup (lost' \ lost)
                \subseteq {Item(r, Len(log), p) : r \in Readers, p \in W}
    /\ got \subseteq got' /\ lost \subseteq lost' /\ got' \cap lost' = {}
    /\ \A i \in lost' \ lost : MayLose(i.to)
    /\ UNCHANGED <<where, ask, session>>

\* An item of a committed step settles, once.
Settles(i) == i.path \in log[i.step + 1] /\ i \notin got \cup lost

Arrive(i) ==
    /\ Settles(i)
    /\ where[i.to] \in {"ready", "staging"}
    /\ got' = got \cup {i}
    /\ UNCHANGED <<log, where, ask, session, lost>>

Lose(i) ==
    /\ Settles(i)
    /\ MayLose(i.to)
    /\ lost' = lost \cup {i}
    /\ UNCHANGED <<log, where, ask, session, got>>

\* The writer tells a reader of the next step of its session.
Tell(r) ==
    LET n == NextStep(r)
        due == session[r].due
    IN  /\ session[r].open
        /\ n < Len(log)
        /\ \A p \in DOMAIN due :
              due[p] <= n /\ p \in log[n + 1] => Item(r, n, p) \in got \cup lost
        /\ session' = [session EXCEPT ![r].heard = Append(@, n)]
        /\ UNCHANGED <<log, where, ask, got, lost>>

\* A reader gets in touch. It is promised the data of the step that is next,
\* or of the one after when that one is on its way.
Open(r) ==
    /\ ~session[r].open
    /\ where[r] \in {"ready", "staging"}
    /\ \E n \in 0 .. Len(log), P \in SUBSET Paths :
          \E D \in [P -> {Len(log), Len(log) + 1}] :
             session' = [session EXCEPT ![r] = Session(n, D)]
    /\ UNCHANGED <<log, where, ask, got, lost>>

\* A backfill session starts at the step asked for, or at the end of the log
\* when that comes first; some path is promised from the step asked for on.
Backfill(r) ==
    /\ ~session[r].open
    /\ where[r] # "out"
    /\ \E n \in {ask[r], Len(log)}, P \in SUBSET Paths :
          /\ n <= ask[r] /\ n <= Len(log)
          /\ \E D \in [P -> 0 .. Len(log) + 1 \cup {ask[r]}] :
                /\ \E p \in P : D[p] = ask[r]
                /\ session' = [session EXCEPT ![r] = Session(n, D)]
    /\ UNCHANGED <<log, where, ask, got, lost>>

Promise(r, p) ==
    LET due == session[r].due
    IN  /\ session[r].open
        /\ where[r] = "ready"
        /\ p \notin DOMAIN due
        /\ \E n \in {Len(log), Len(log) + 1} :
              session' = [session EXCEPT ![r].due =
                            [q \in DOMAIN due \cup {p} |-> IF q = p THEN n ELSE due[q]]]
        /\ UNCHANGED <<log, where, ask, got, lost>>

\* A session is over when its reader asks for a backfill, or is gone.
Close(r) ==
    /\ session[r].open
    /\ where[r] \in {"staging", "gone"}
    /\ session' = [session EXCEPT ![r] = NoSession]
    /\ UNCHANGED <<log, where, ask, got, lost>>

Moves == {<<"out", "ready">>, <<"staging", "ready">>, <<"ready", "gone">>}
Move(r) ==
    /\ <<where[r], where'[r]>> \in Moves
    /\ where' = [where EXCEPT ![r] = where'[r]]
    /\ UNCHANGED <<log, ask, session, got, lost>>

Ask(r) ==
    /\ where[r] = "ready"
    /\ where' = [where EXCEPT ![r] = "staging"]
    /\ ask'[r] \in Nat
    /\ ask' = [ask EXCEPT ![r] = ask'[r]]
    /\ UNCHANGED <<log, session, got, lost>>

\* The first disjunct is the case in which readers see nothing. It adds no
\* behaviour to Spec, and spares the others when an implementation takes a step
\* of its own.
Next ==
    \/ UNCHANGED vars
    \/ Commit
    \/ \E r \in Readers, p \in Paths, n \in 0 .. Len(log) - 1 :
          Arrive(Item(r, n, p)) \/ Lose(Item(r, n, p))
    \/ \E r \in Readers :
          \/ Tell(r) \/ Open(r) \/ Backfill(r) \/ Close(r) \/ Move(r) \/ Ask(r)
          \/ \E p \in Paths : Promise(r, p)

Spec == Init /\ [][Next]_vars
=============================================================================
