-------------------------------- MODULE MCTui ---------------------------------
(* Tui with a user of a private and a public file, of one file, of a file  *)
(* and an API key, and of an API key and another to be created.            *)
EXTENDS Tui, TLC

CONSTANTS f1, f2

MCStarts ==
    {[private |-> {f1}, public |-> {f2}, keys |-> {}, spare |-> {}],
     [private |-> {f1}, public |-> {}, keys |-> {}, spare |-> {}],
     [private |-> {}, public |-> {f1}, keys |-> {}, spare |-> {}],
     [private |-> {f1}, public |-> {}, keys |-> {1}, spare |-> {}],
     [private |-> {}, public |-> {}, keys |-> {1}, spare |-> {2}]}

(* What the next steps depend on: nothing happens once the program has     *)
(* ended; the page of the API keys is loaded when it is opened; the file   *)
(* chosen last does not matter before another is chosen.                   *)
Shape ==
    IF ended # "no" THEN <<ended, rushed>>
    ELSE <<page, keys, spare, armed, browsing, flight, hasty, elsewhere, crossed, rushed, asked,
           IF page = "apikeys" THEN <<rows, cursor, creating, pressed>> ELSE <<>>,
           IF stack = <<"browser">> /\ flight = EmptyBag THEN NoFile ELSE chosen>>

(* What a key pressed too early leads to is followed until nothing is      *)
(* under way, and further if it has taken the cursor of the options to     *)
(* where it may come to be below the end of a shorter list.                *)
Followed ==
    rushed # {} =>
        \/ flight # EmptyBag
        \/ dialog = "visibility" /\ index = 5
        \/ index > Len(Offered(copy))

(* What others do is followed for a user of one file, without API keys,    *)
(* and as long as no key was pressed too early.                            *)
Separate ==
    elsewhere > 0 =>
        /\ hasty = 0
        /\ keys \cup spare = {} /\ page # "apikeys"
        /\ \E f \in Files : db[f] = "none"

Symmetry == Permutations({f1, f2})
=============================================================================
