----------------------------- MODULE CreationLife -----------------------------
(***************************************************************************)
(* What a creation promises its owner, with no request, job, file or       *)
(* sweeper in sight (models/creation.py): a draft becomes an avatar only   *)
(* by being finished, one avatar at a time, and comes out of a finish      *)
(* whole: a draft again with no avatar, or finished with its avatar        *)
(* published.  What is finished, expired or gone never comes back.         *)
(* Creations.tla implements this specification.                            *)
(***************************************************************************)
CONSTANTS
    Avatars,      \* the avatars finishes may make
    None

VARIABLES
    status,       \* as the owner sees it, "gone" without a row
    avatar,       \* the avatar it is or was finished into, or None
    avatars       \* status of each avatar

lifeVars == <<status, avatar, avatars>>

\* An avatar made of the creation that its owner could still see.
Standing(a) == avatars[a] \in {"processing", "ready", "failed"}

Init ==
    /\ status = "draft"
    /\ avatar = None
    /\ avatars = [a \in Avatars |-> "none"]

\* The owner's confirmation: a new avatar, beside no other.
Finish(a) ==
    /\ status = "draft"
    /\ avatars[a] = "none"
    /\ \A b \in Avatars : ~Standing(b)
    /\ status' = "finishing"
    /\ avatar' = a
    /\ avatars' = [avatars EXCEPT ![a] = "processing"]

\* Creation and avatar change together, either way.
Publish ==
    /\ status = "finishing"
    /\ avatars[avatar] = "processing"
    /\ status' = "finished"
    /\ avatars' = [avatars EXCEPT ![avatar] = "ready"]
    /\ UNCHANGED avatar

Undo ==
    /\ status = "finishing"
    /\ avatars[avatar] # "ready"
    /\ status' = "draft"
    /\ avatar' = None
    /\ avatars' = [avatars EXCEPT ![avatar] = "deleted"]

Expire ==
    /\ status = "draft"
    /\ status' = "expired"
    /\ UNCHANGED <<avatar, avatars>>

\* Deleted by its owner, or purged: what it made stays.
Go ==
    /\ status # "gone"
    /\ status' = "gone"
    /\ avatar' = None
    /\ UNCHANGED avatars

\* An avatar goes, by its owner's hand or with the finish that made it.
Drop(a) ==
    /\ Standing(a)
    /\ avatars' = [avatars EXCEPT ![a] = "deleted"]
    /\ UNCHANGED <<status, avatar>>

\* A creation deleted under its finish may leave its avatar unbuilt; a
\* restart says so.
Fail(a) ==
    /\ status = "gone"
    /\ avatars[a] = "processing"
    /\ avatars' = [avatars EXCEPT ![a] = "failed"]
    /\ UNCHANGED <<status, avatar>>

Next ==
    \/ Publish \/ Undo \/ Expire \/ Go
    \/ \E a \in Avatars : Finish(a) \/ Drop(a) \/ Fail(a)

Spec == Init /\ [][Next]_lifeVars
=============================================================================
