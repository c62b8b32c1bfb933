----------------------------- MODULE VaultStream -----------------------------
(***************************************************************************)
(* What a password vault promises the devices of its user                  *)
(* (internal/passwords/vault): a stream of entries under a counter that    *)
(* only grows.  A device that knows every entry up to some revision needs  *)
(* only the entries above it, and forgets what the stream has forgotten.   *)
(* Module VaultServer implements it.                                       *)
(***************************************************************************)
EXTENDS Integers

CONSTANTS
    Ids,
    Blank           \* the entry of an id the vault does not hold

VARIABLES
    top,            \* the last revision handed out
    feed            \* per id: its state, revision, place and content

streamVars == <<top, feed>>

StreamInit == top = 0 /\ feed = [x \in Ids |-> Blank]

Touched == {x \in Ids : feed'[x] # feed[x]}

\* One write.  Its entries carry the revisions it took, and it takes none that
\* no entry carries; what was deleted can only come back, and neither that nor
\* deleting it changes its content.
Publish ==
    /\ top' > top
    /\ {feed'[x].rev : x \in Touched} = (top + 1) .. top'
    /\ \A x \in Touched :
         /\ feed'[x].st \in {"live", "trashed"}
         /\ feed[x].st = "trashed" => feed'[x].st = "live"
         /\ feed[x].st # "absent" /\ feed'[x].st # feed[x].st => feed'[x].content = feed[x].content

\* Deleted entries are dropped for good, behind the back of the stream; what has
\* its place in a dropped one is left without a place, and not told so.
Dropped == {x \in Ids : feed[x].st = "trashed" /\ feed'[x] = Blank}

Misplaced(entry) == [entry EXCEPT !.folder = Blank.folder]

Forget ==
    /\ top' = top /\ Touched # {}
    /\ \A x \in Touched \ Dropped :
         feed[x].folder \in Dropped /\ feed'[x] = Misplaced(feed[x])

StreamNext == Publish \/ Forget

StreamSpec == StreamInit /\ [][StreamNext]_streamVars

\* What a device was told at revision r, when the feed was told, is still true but
\* for a place that was dropped, or the vault has forgotten it.
StillTold(r, told) ==
    \A x \in Ids :
        feed[x].st # "absent" /\ feed[x].rev <= r => feed[x] \in {told[x], Misplaced(told[x])}
=============================================================================
