-------------------------------- MODULE Igmp --------------------------------
(***************************************************************************)
(* Multicast membership, lwip/src/core/ipv4/igmp.c: groups, delayed        *)
(* reports, queries and reports of others.  LWIP_IGMP is off in this build.*)
(* One interface, whose MAC filter the module keeps.  Random delays are    *)
(* any of those that igmp_start_timer() can choose.                        *)
(* External: routers, other members, heap, application.                    *)
(***************************************************************************)
EXTENDS Naturals, FiniteSets

CONSTANTS
  Group, AllSystems,           \* multicast groups; 224.0.0.1
  MaxResp,                     \* response times in queries, in ticks (> 1)
  IGMP_JOIN_DELAYING_MEMBER_TMR, IGMP_V1_DELAYING_MEMBER_TMR,
  MaxUse                       \* bound: joins of one group that are not left

ASSUME IgmpAssumption ==
  /\ AllSystems \notin Group /\ MaxUse \in Nat \ {0} /\ MaxResp \subseteq Nat \ {0, 1}
  /\ {IGMP_JOIN_DELAYING_MEMBER_TMR, IGMP_V1_DELAYING_MEMBER_TMR} \subseteq Nat \ {0, 1}

Never == 0
All == Group \cup {AllSystems}

VARIABLES
  groups,                      \* igmp_group_list: [state, timer, last, use] of the groups in it
  filter,                      \* addresses that the MAC lets through
  joins,                       \* joins of the application less leaves
  due                          \* history: ticks left for an answer to the strictest query

igmpVars == <<groups, filter, joins, due>>

In == DOMAIN groups
IgmpInit ==
  /\ groups = [g \in {} |-> 0] /\ filter = {}
  /\ joins = [g \in Group |-> 0] /\ due = [g \in All |-> Never]

With(f, g, e) == [x \in DOMAIN f \cup {g} |-> IF x = g THEN e ELSE f[x]]
\* igmp_remove_group()
Without(f, S) == [x \in DOMAIN f \ S |-> f[x]]
NewGroup == [state |-> "NON_MEMBER", timer |-> 0, last |-> FALSE, use |-> 0]
-----------------------------------------------------------------------------
\* igmp_start_timer(): RAND % (max - 1) + 1, for max > 1.
Delays(max) == 1 .. max - 1

Restarts(e, max) ==
  e.state = "IDLE" \/ (e.state = "DELAYING" /\ (e.timer = 0 \/ max < e.timer))
\* Mutant: a running timer is never shortened.
DelayingMemberKeepsTimer(e, max, t) ==
  IF e.state = "IDLE" \/ (e.state = "DELAYING" /\ e.timer = 0)
  THEN [e EXCEPT !.timer = t, !.state = "DELAYING"] ELSE e
\* igmp_delaying_member(); t is the delay that was chosen.
DelayingMember(e, max, t) ==
  IF Restarts(e, max) THEN [e EXCEPT !.timer = t, !.state = "DELAYING"] ELSE e

Sooner(d, max) == IF d = Never \/ max < d THEN max ELSE d

\* A query with response time max for the groups of S.
Query(S, max) ==
  /\ \E t \in [In -> Delays(max)] :
        groups' = [g \in In |-> IF g \in S THEN DelayingMember(groups[g], max, t[g]) ELSE groups[g]]
  /\ due' = [g \in All |-> IF g \in S \cap In THEN Sooner(due[g], max) ELSE due[g]]
  /\ UNCHANGED <<filter, joins>>

\* igmp_start() and igmp_stop()
IgmpStart(alloc) ==
  /\ AllSystems \notin In /\ alloc
  /\ groups' = With(groups, AllSystems, [NewGroup EXCEPT !.state = "IDLE", !.use = 1])
  /\ filter' = filter \cup {AllSystems} /\ UNCHANGED <<joins, due>>
IgmpStop ==
  /\ groups' = [g \in {} |-> 0] /\ filter' = filter \ In
  /\ joins' = [g \in Group |-> 0] /\ due' = [g \in All |-> Never]

\* igmp_report_groups(), when the link comes up: every group, 224.0.0.1 too.
ReportGroups == In # {} /\ Query(In, IGMP_JOIN_DELAYING_MEMBER_TMR)

\* igmp_joingroup(): a first report at once, if there is memory for it, a
\* second one after a delay.
Join(g, alloc, send) ==
  LET e == IF g \in In THEN groups[g] ELSE NewGroup
  IN  /\ joins[g] < MaxUse /\ (g \in In \/ alloc)
      /\ \E t \in Delays(IGMP_JOIN_DELAYING_MEMBER_TMR) :
           groups' = With(groups, g,
             IF e.state # "NON_MEMBER" THEN [e EXCEPT !.use = @ + 1]
             ELSE [state |-> "DELAYING", timer |-> t, last |-> send, use |-> e.use + 1])
      /\ filter' = IF e.state = "NON_MEMBER" /\ e.use = 0 THEN filter \cup {g} ELSE filter
      /\ joins' = [joins EXCEPT ![g] = @ + 1] /\ UNCHANGED due

\* igmp_leavegroup(), with igmp_remove_group() by the last user.
Leave(g) ==
  LET e == groups[g]
  IN  /\ joins[g] > 0
      /\ IF e.use <= 1
         THEN /\ groups' = Without(groups, {g}) /\ filter' = filter \ {g}
              /\ due' = [due EXCEPT ![g] = Never]
         ELSE groups' = [groups EXCEPT ![g].use = @ - 1] /\ UNCHANGED <<filter, due>>
      /\ joins' = [joins EXCEPT ![g] = @ - 1]
-----------------------------------------------------------------------------
(* igmp_input()                                                            *)

\* A general query; version 1 brings no response time.
GeneralQuery(max) ==
  /\ AllSystems \in In
  /\ Query(In \ {AllSystems}, IF max = 0 THEN IGMP_V1_DELAYING_MEMBER_TMR ELSE max)
\* A query for one group, sent to the group or to all systems.
GroupQuery(g, toAll, max) ==
  /\ (IF toAll THEN AllSystems ELSE g) \in In
  /\ Query({g} \cap In, max)
\* Another member of the group reports.
HearReport(g) ==
  /\ g \in In
  /\ groups' = [groups EXCEPT ![g] =
                  IF @.state = "DELAYING"
                  THEN [@ EXCEPT !.timer = 0, !.state = "IDLE", !.last = FALSE] ELSE @]
  /\ due' = [due EXCEPT ![g] = Never] /\ UNCHANGED <<filter, joins>>

\* igmp_tmr() and igmp_timeout(): the report is sent if there is memory; the
\* group stays a delaying member.
IgmpTmr(send) ==
  LET fires(g) == groups[g].timer = 1
  IN  /\ groups' = [g \in In |->
           LET e == groups[g]
           IN  IF e.timer = 0 THEN e
               ELSE [e EXCEPT !.timer = @ - 1,
                              !.last = @ \/ (fires(g) /\ send /\ e.state = "DELAYING")]]
      /\ due' = [g \in All |-> IF due[g] = Never \/ (fires(g) /\ groups[g].state = "DELAYING")
                               THEN Never ELSE due[g] - 1]
      /\ UNCHANGED <<filter, joins>>

IgmpNext ==
  \/ \E b \in BOOLEAN : IgmpStart(b) \/ IgmpTmr(b)
  \/ IgmpStop \/ ReportGroups
  \/ \E g \in Group : Leave(g) \/ HearReport(g) \/ \E a, s \in BOOLEAN : Join(g, a, s)
  \/ \E max \in MaxResp \cup {0} : GeneralQuery(max)
  \/ \E g \in Group, b \in BOOLEAN, max \in MaxResp : GroupQuery(g, b, max)

IgmpSpec == IgmpInit /\ [][IgmpNext]_igmpVars
-----------------------------------------------------------------------------
(* Properties                                                              *)

\* A group whose membership was asked for is reported, or heard to be reported
\* by another member, within the time of the strictest query, however queries,
\* joins and reports overlap.
QueryAnswered ==
  \A g \in All : due[g] # Never =>
    g \in In /\ groups[g].state = "DELAYING" /\ groups[g].timer \in 1 .. due[g]

\* The list and the MAC filter hold exactly the groups that somebody has joined
\* and not left.
MembershipExact ==
  /\ In \ {AllSystems} = {g \in Group : joins[g] > 0} /\ filter = In
  /\ \A g \in In \ {AllSystems} : groups[g].use = joins[g]

\* A query is answered in time, and the interface lets through the groups that
\* were joined.
MembershipSound == QueryAnswered /\ MembershipExact
=============================================================================
