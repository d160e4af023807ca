-------------------------------- MODULE Inbox --------------------------------
(***************************************************************************)
(* What the owner may rely on, whatever timers, texts and downloads do: a  *)
(* message is answered in one turn and in one only, or not at all; the     *)
(* photos of an album that have been fetched go into a turn together, and  *)
(* never more than fit; turns have theirs in the order they came to the    *)
(* lock; and what is over never comes back.                                *)
(***************************************************************************)
EXTENDS Naturals, Sequences, FiniteSets

CONSTANTS Msgs, Photos, Groups, GroupOf, MaxPhotos

VARIABLES
  fate,  \* of a message: "new", "fetched" (photos), "due" or "gone"
  line   \* the turns that are due, each the set of messages it answers
vars == <<fate, line>>

With(f) == {m \in Msgs : fate[m] = f}
Album(g) == {p \in Photos : GroupOf[p] = g /\ fate[p] = "fetched"}
Become(ms, f) == fate' = [m \in Msgs |-> IF m \in ms THEN f ELSE fate[m]]

Init == fate = [m \in Msgs |-> "new"] /\ line = <<>>

Fetch(p) ==
  /\ fate[p] = "new" /\ UNCHANGED line
  /\ Become({p}, "fetched") /\ Cardinality(Album(GroupOf[p])) < MaxPhotos

Join(ms) == line' = Append(line, ms) /\ Become(ms, "due")
JoinAlone(m) == fate[m] = "new" /\ Join({m})
JoinAlbum(g) == Album(g) # {} /\ Join(Album(g))

Serve == line # <<>> /\ line' = Tail(line) /\ Become(Head(line), "gone")

(* Refused, lost, or one too many.                                         *)
Drop(m) == fate[m] = "new" /\ UNCHANGED line /\ Become({m}, "gone")

(* A stop forgets the albums that still collect.                           *)
Close == UNCHANGED line /\ Become(With("fetched"), "gone")

(* A death takes all but some of those nobody has begun with.              *)
Die ==
  /\ line' = <<>>
  /\ \E ms \in SUBSET With("new") : Become(Msgs \ ms, "gone")

Next == \/ \E p \in Photos : Fetch(p)
        \/ \E g \in Groups : JoinAlbum(g)
        \/ \E m \in Msgs \ Photos : JoinAlone(m)
        \/ \E m \in Msgs : Drop(m)
        \/ Serve \/ Close \/ Die

Spec == Init /\ [][Next]_vars
=============================================================================
