-------------------------------- MODULE Match --------------------------------
(***************************************************************************)
(* Which computers a target means (server/match.go).  A text is a sequence *)
(* of one-letter strings.  Nothing here is RECURSIVE: the loop of          *)
(* wildcardMatch is a recursive function of its four variables.            *)
(***************************************************************************)
EXTENDS Naturals, Sequences, FiniteSetsExt

CONSTANTS Letters,  \* the characters there are, "*", "?" and "\\" among them
          Lower,    \* unicode.ToLower on them
          Networks  \* the patterns net.ParseCIDR takes, with their addresses

ASSUME MatchAssumption ==
  /\ {"*", "?", "\\", " "} \subseteq Letters
  /\ Lower \in [Letters -> Letters]
  /\ DOMAIN Networks \subseteq Seq(Letters)

ToLower(s) == [i \in DOMAIN s |-> Lower[s[i]]]

-----------------------------------------------------------------------------
(* wildcardMatch *)

\* The loop: where it is in pattern and text, the last star it has passed (0
\* for none), and how far that star has been made to reach.
WildcardMatch(pattern, s) ==
  LET p == ToLower(pattern)
      t == ToLower(s)
      P == 1..(Len(p) + 1)
      T == 1..(Len(t) + 1)
      Fits(pi, ti) == pi <= Len(p) /\ (p[pi] = "?" \/ p[pi] = t[ti])
      run[x \in P \X T \X (P \cup {0}) \X T] ==
        LET pi == x[1]
            ti == x[2]
            star == x[3]
            mark == x[4]
        IN IF ti > Len(t) THEN \A i \in pi..Len(p) : p[i] = "*"
           ELSE IF Fits(pi, ti) THEN run[<<pi + 1, ti + 1, star, mark>>]
           ELSE IF pi <= Len(p) /\ p[pi] = "*" THEN run[<<pi + 1, ti, pi, ti>>]
           ELSE IF star # 0 THEN run[<<star + 1, mark + 1, star, mark + 1>>]
           ELSE FALSE
  IN run[<<1, 1, 0, 1>>]

\* What a glob is: the characters of the text are shared out, in order, among
\* those of the pattern, one to each but a star, which may have any number.
Glob(pattern, s) ==
  LET p == ToLower(pattern)
      t == ToLower(s)
  IN \E f \in [DOMAIN t -> DOMAIN p] :
       /\ \A i, j \in DOMAIN t : i <= j => f[i] <= f[j]
       /\ \A i \in DOMAIN t : p[f[i]] \in {"*", "?", t[i]}
       /\ \A k \in DOMAIN p :
            p[k] # "*" => \E i \in DOMAIN t : {j \in DOMAIN t : f[j] = k} = {i}

-----------------------------------------------------------------------------
(* cleanText, cleanRules, ruleMatches *)

\* strings.TrimSpace.
Trim(s) ==
  LET I == {i \in DOMAIN s : s[i] # " "} IN
    IF I = {} THEN <<>> ELSE SubSeq(s, Min(I), Max(I))

CleanText(s, max) == Trim(IF Len(s) > max THEN SubSeq(s, 1, max) ELSE s)

Fields == {"hostname", "user", "ou", "group", "ip"}
RuleType == [field : Fields, pattern : Seq(Letters)]

\* Rules with an unknown field or nothing in the pattern are dropped.
CleanRules(R, max) ==
  {r \in {[field |-> q.field, pattern |-> CleanText(q.pattern, max)] : q \in R} :
     r.field \in Fields /\ r.pattern # <<>>}

Wild(p) == \E i \in DOMAIN p : p[i] \in {"*", "?"}

\* strings.Contains of the texts in lower case.
Contains(s, p) ==
  \E i \in 0..Len(s) :
    /\ i + Len(p) <= Len(s)
    /\ ToLower(SubSeq(s, i + 1, i + Len(p))) = ToLower(p)

\* A group without its domain: what follows the last backslash.
Short(g) ==
  LET I == {i \in DOMAIN g : g[i] = "\\"} IN
    IF I = {} THEN g ELSE SubSeq(g, Max(I) + 1, Len(g))

\* ruleMatches, for a rule and the facts of a client.
RuleMatches(r, c) ==
  LET p == Trim(r.pattern) IN
    /\ p # <<>>
    /\ CASE r.field = "hostname" -> WildcardMatch(p, c.hostname)
         [] r.field = "user" ->
              \/ WildcardMatch(p, c.user)
              \/ WildcardMatch(p, c.domain \o <<"\\">> \o c.user)
         [] r.field = "ou" ->
              IF Wild(p) THEN WildcardMatch(p, c.ou) ELSE Contains(c.ou, p)
         [] r.field = "group" ->
              \E g \in c.groups : WildcardMatch(p, g) \/ WildcardMatch(p, Short(g))
         [] r.field = "ip" ->
              IF p \in DOMAIN Networks THEN c.ip \in Networks[p]
                                       ELSE WildcardMatch(p, c.ip)
         [] OTHER -> FALSE

RulesMatch(R, c) == \E r \in R : RuleMatches(r, c)

\* alertMatches: all, or one of the rules kept with the alert.
AlertMatches(a, c) == a.all \/ RulesMatch(a.rules, c)

\* Mutant of FlattenTarget: the groups are left out.
FlattenTargetRules(target, groups) ==
  IF target.all THEN {} ELSE target.rules

\* flattenTarget: the rules of the target and of its groups as they are now;
\* a group that is gone (no rules) adds nothing.
FlattenTarget(target, groups) ==
  IF target.all THEN {}
  ELSE target.rules \cup UNION {groups[g] : g \in target.groups}
=============================================================================
