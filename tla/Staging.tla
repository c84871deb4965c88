-------------------------------- MODULE Staging --------------------------------
(***************************************************************************)
(* What the buffers promise a writer and a reader, without account sizes,  *)
(* trailers or growth: a buffer has the payer and the capacity it was      *)
(* opened with, holds what was last written at each offset and zeros       *)
(* elsewhere, changes only before its transition settles, and goes away    *)
(* only after.                                                             *)
(***************************************************************************)
EXTENDS Integers

CONSTANTS Apps, Transitions, Payers, Bytes, ZERO, Capacities, None

VARIABLES
    staged,   \* the buffer of each application and transition, or None
    floor     \* the first transition of each application not yet settled, or None

stagingVars == <<staged, floor>>

Init ==
    /\ staged = [k \in Apps \X Transitions |-> None]
    /\ floor = [app \in Apps |-> None]

Start(app) ==
    /\ floor[app] = None
    /\ floor' = [floor EXCEPT ![app] = 0]
    /\ UNCHANGED staged

Opened(payer, capacity) ==
    [payer |-> payer, capacity |-> capacity, content |-> [i \in 0 .. capacity - 1 |-> ZERO]]

\* Only the bytes at the offset change, and only within the capacity.
Overwritten(old) ==
    {[old EXCEPT !.content = [i \in DOMAIN old.content |->
                                IF i - offset \in DOMAIN bytes THEN bytes[i - offset]
                                                               ELSE old.content[i]]] :
        offset \in DOMAIN old.content, bytes \in UNION {[0 .. n -> Bytes] : n \in DOMAIN old.content}}

\* A write of nothing leaves the content as it is, and still opens the buffer.
Write(app, t) ==
    LET k == <<app, t>>
        found == IF staged[k] = None
                 THEN {Opened(payer, capacity) : payer \in Payers, capacity \in Capacities}
                 ELSE {staged[k]}
    IN  /\ floor[app] # None /\ t >= floor[app]
        /\ \E old \in found : staged'[k] \in Overwritten(old) \cup {old}
        /\ staged' = [staged EXCEPT ![k] = staged'[k]]
        /\ UNCHANGED floor

Settle(app) ==
    /\ floor[app] # None
    /\ floor' = [floor EXCEPT ![app] = @ + 1]
    /\ UNCHANGED staged

Discard(app, t) ==
    /\ floor[app] # None /\ t < floor[app]
    /\ staged[<<app, t>>] # None
    /\ staged' = [staged EXCEPT ![<<app, t>>] = None]
    /\ UNCHANGED floor

Next ==
    \E app \in Apps :
        \/ Start(app)
        \/ Settle(app)
        \/ \E t \in Transitions : Write(app, t) \/ Discard(app, t)

Spec == Init /\ [][Next]_stagingVars
===============================================================================
