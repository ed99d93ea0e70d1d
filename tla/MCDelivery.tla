----------------------------- MODULE MCDelivery -----------------------------
(* Delivery with the durations of the code, in quarters of a second. *)
EXTENDS Delivery

\* Deliver starts at once, or when the collection has used up its deadline.
MCStarted == {0, 80}

\* Retry-After missing or one second, or at its cap.
MCRetryAfter == {4, 120}

\* At once, or just before the client gives up.
MCDelays == {1, 39}
=============================================================================
