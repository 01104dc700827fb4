----------------------------- MODULE MCOtaUpdate -----------------------------
(* Instances of OtaUpdate for TLC. *)
EXTENDS OtaUpdate, TLC

CONSTANTS u1, u2, u3

\* Two files of equal size, whose chunks can stand in for each other, and an
\* empty one.  A chunk of two bytes is padded as one of 2048 is.
MCUploads == {u1, u2, u3}
MCFileSize == (u1 :> 3) @@ (u2 :> 3) @@ (u3 :> 0)

\* The conversion on all byte strings of up to five bytes from samples with
\* every bit of the borders of the characters set and clear.
Samples == {0, 1, 170, 255}
ASSUME Base64RoundTrips ==
  \A n \in 0 .. 5 : \A bytes \in [1 .. n -> Samples] : RoundTrip(bytes)
=============================================================================
