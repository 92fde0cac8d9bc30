---------------------------- MODULE MCDirectives ----------------------------
\* Instance of Directives for TLC.
EXTENDS Directives, TLC

CONSTANTS codex, claude, d1, d2, x1, x2, c1, lx, lc, t1, g1

Rows == {d1, d2} \X {codex, claude}
AgentOfSession == x1 :> codex @@ x2 :> codex @@ c1 :> claude
AgentOfLineage == lx :> codex @@ lc :> claude
ClientOfTurn == t1 :> codex

\* The two codex sessions are alike, and so are the two directives.
Alike == Permutations({x1, x2})

Bound(d) == \E g \in Agent : recipient[<<d, g>>].bound # None
NoneOpen(ss) == \A s \in ss : ~Registered(s)

\* What TLC explores, in two parts.  One is about authority: two directives,
\* a grant of two versions, and one session that issues.  In the other a
\* delegated directive is delivered to both agents: the codex carrier meets
\* every course of events, that of claude is delivered without a hitch.
AboutAuthority ==
  /\ directive[d2] # None => directive[d1] # None
  /\ \A d \in Directive : ~Bound(d)
  /\ NoneOpen({c1}) /\ Cardinality({s \in {x1, x2} : Registered(s)}) <= 1

Smooth(m) ==
  /\ recipient[m].state \in {"PENDING", "DELIVERED", "PROCESSED"}
  /\ recipient[m].bound # None => recipient[m].fence = 1
  /\ \A a \in attempts : a.msg = m => a.state \in {"ACTIVE", "CONFIRMED"}

AboutDelivery ==
  /\ directive[d2] = None
  /\ grant[g1].version <= 1
  /\ directive[d1] # None => /\ directive[d1].grant = g1
                             /\ directive[d1].audience = Agent
                             /\ directive[d1].expires = grant[g1].expires
  /\ session[c1].connection # "CLOSED"
  /\ Smooth(<<d1, claude>>)

Scope == AboutAuthority \/ AboutDelivery

=============================================================================
