------------------------------ MODULE MCReading -------------------------------
(* Reading with three contents, of which one begins like a compressed one, *)
(* three limits, and a signed URL for every short text of a lifetime.      *)
EXTENDS Reading

(* What follows an answer follows without the request as well, which has   *)
(* no effect but the link its page makes before the answer.                *)
Answering == req.pc \notin {"answered", "missing", "refused", "error"}

(* Signed URLs, and what time does to them, are followed under one limit   *)
(* and up to the second content: they open a page whatever is on it.       *)
Linked ==
    links # {} \/ now > 0 =>
        /\ limits = {1}
        /\ Exists => file.version + Cardinality(updates) < MaxVersion
=============================================================================
