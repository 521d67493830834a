----------------------------- MODULE MCBubblegum -----------------------------
(* Instances of Bubblegum for TLC, and what the API serves from its tables. *)
EXTENDS Bubblegum, TLC

Read == INSTANCE AssetRead WITH NoValue <- NULL, NoAddress <- EmptyCreator

CONSTANTS c1, c2

OwnerSymmetry == Permutations(Owners) \cup Permutations(DataSet)

Plain(address) == [address |-> address, verified |-> FALSE]

NoCreatorLists == {<< >>}
CreatorArrays == {<< >>, <<Plain(c1)>>, <<Plain(c1), Plain(c2)>>}

-----------------------------------------------------------------------------
\* The creators getAsset returns are, at every moment, the array of the latest
\* applied instruction that carried one: rows of longer, older arrays are left
\* in asset_creators and filter_out_stale_creators hides exactly those.
ServedCreatorsAreLatest ==
    \A a \in Assets :
        LET S == Applied(a, CreatorKinds)
        IN  Read!ServedCreators(asset_creators[a]) =
                IF S = {} THEN << >>
                ELSE CreatorsWritten(chain[CHOOSE i \in S : \A j \in S : j <= i])

\* Once every instruction of the tree has been handled at least once, in
\* whatever order, the asset served by getAsset is the asset on chain.
CaughtUpMatchesChain ==
    applied = 1 .. Len(chain) =>
        \A a \in Assets :
            LET now == onchain[a]
            IN  now.status # "none" =>
                  /\ MatchesChain(a)
                  /\ Read!ServedCreators(asset_creators[a]) = now.creators
                  /\ Read!ServedGroup(asset_grouping[a]) =
                        (IF now.collection # NULL /\ now.collection.verified
                         THEN now.collection.key ELSE NULL)
=============================================================================
