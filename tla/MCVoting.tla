------------------------------ MODULE MCVoting -------------------------------
(***************************************************************************)
(* One account whose lock one call raises while another votes, claims or   *)
(* proposes; the first call may vote instead.  A sheet takes two votes or  *)
(* two claims.  The vault is as in MCVault.                                *)
(***************************************************************************)
EXTENDS Voting, MCVault

VotingAsks == c1 :> {} @@ c2 :> {"increase"}

Proposal(app, n, created, start, end, approved) ==
  [app |-> app, index |-> n, created |-> created, start |-> start, end |-> end,
   approved |-> approved]

\* "s2" has its attendance in the second sheet; "p2" is made just now.
MCProposals ==
  [p0 |-> Proposal("voting", 0, 3, 5, 14, TRUE),
   p2 |-> Proposal("voting", 1, 6, 7, 14, TRUE),
   p3 |-> Proposal("voting", 3, 3, 5, 14, FALSE),
   s1 |-> Proposal("staking", 1, 4, 5, 14, TRUE),
   s2 |-> Proposal("staking", 2, 3, 5, 14, TRUE)]

MCBallots ==
  c1 :> {[op |-> "vote", id |-> "p0"], [op |-> "vote", id |-> "p2"], [op |-> "vote", id |-> "p3"],
         [op |-> "stake", id |-> "s1", options |-> {"a", "b", "c"}],
         [op |-> "stake", id |-> "s2", options |-> {"a"}],
         [op |-> "claim", from |-> 0, count |-> 3],
         [op |-> "claim", from |-> 1, count |-> 1], [op |-> "propose", id |-> "new"]}
  @@ c2 :> {[op |-> "vote", id |-> "p0"], [op |-> "stake", id |-> "s1", options |-> {"a"}],
            [op |-> "claim", from |-> 0, count |-> 1]}

MCOtherVotes == {<<"s1", "a">>}

MCPrice == [voting |-> 5, staking |-> 6, rewards |-> 40, option |-> 2, proposal |-> 9]
==============================================================================
