-------------------------- MODULE MCImageReupload --------------------------
(* Instances of ImageReupload for TLC. *)
EXTENDS ImageReupload, TLC

CONSTANTS s1, s2

Employee == {"request", "disable"}
Client == {"reupload"}

\* Uploads, and other saves of the row, one at a time; one employee who does
\* one thing at a time.
OneClient == s1 :> Client \cup {"touch"} @@ s2 :> Employee

\* The client sends two uploads at once.
TwoUploads == s1 :> Client \cup Employee @@ s2 :> Client

ImageSymmetry == Permutations(Images)
=============================================================================
