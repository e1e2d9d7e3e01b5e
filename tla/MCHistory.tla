------------------------------ MODULE MCHistory ------------------------------
(* One computer that can move, and two handlers, of which one may be of a  *)
(* poll that has been given up.  Of three alerts two stay and one keeps    *)
(* its records, so that the limits are met after the second and the third. *)
EXTENDS History, TLC

CONSTANTS c1, p1, p2, g1

SomeLetters == {"*", "?", "\\", " ", "a", "A", "b", "B"}
LowerCase ==
  [x \in SomeLetters |-> CASE x = "A" -> "a" [] x = "B" -> "b" [] OTHER -> x]
NoNetworks == [p \in {} |-> {}]

Of(ou) ==
  [hostname |-> <<"a">>, user |-> <<"b">>, domain |-> <<>>, ou |-> ou,
   groups |-> {}, ip |-> <<>>]
Office == Of(<<"b">>)
SomeFacts == {Of(<<"a", "B">>), Office}

Ou(p) == [field |-> "ou", pattern |-> p]
SomeRules == {{Ou(<<" ", "A", "b">>)}, {Ou(<<"?">>)}}
Everybody == [all |-> TRUE, rules |-> {}, groups |-> {}]
SomeTargets == {Everybody, [all |-> FALSE, rules |-> {}, groups |-> {g1}]}

\* wildcardMatch says what a glob says (its comment in match.go), of every
\* pattern and text of up to four characters but for texts that hold a star
\* themselves: the loop takes a star of the pattern for that very character.
TextsUpTo(n, letters) == UNION {[1..k -> letters] : k \in 0..n}
ASSUME WildcardIsGlob ==
  \A p \in TextsUpTo(4, {"a", "B", "*", "?"}), s \in TextsUpTo(4, {"A", "b"}) :
    WildcardMatch(p, s) <=> Glob(p, s)

\* Two instances in one.  Three alerts for everybody, one handler, and a crash.
\* And from where that crash has taken two alerts, the third, with both
\* handlers, moves, and groups.
Focus ==
  \/ {1, 2} \subseteq lost
  \/ /\ odd <= 1
     /\ \A g \in Groups : groups[g] = {}
     /\ \A r \in Records : info[r].seen = "now" /\ info[r].facts \in {Nil, Office}
     /\ Cardinality({p \in Polls : poll[p].pc # "idle"}) <= 1
     \* with all the alerts sent, reports and the clocks have had their turn
     /\ sent > 2 => ended = {} /\ \A i \in list : ~alert[i].tooOld /\ (i > 1 => Active(i))

\* The crash comes before a group is changed or a computer forgotten; after it
\* no file is read again, so that none has to be written.
CrashFirst ==
  Init /\ [][/\ Next
             /\ odd' # odd => (Restart <=> odd = 0)
             /\ odd > 0 /\ Compact => saved' = saved]_vars

Symmetry == Permutations({p1, p2})
=============================================================================
