--------------------------- MODULE FundingChecks ---------------------------
(***************************************************************************)
(* The pure decisions of package funder: whether a participant has to      *)
(* deposit (needFunding), and whether the funder serves the assets of a    *)
(* channel (containsAllAssets, the checks of FundChannel).                 *)
(*                                                                         *)
(* A participant is its index in the channel, req.Idx: 0 is party A, 1 is  *)
(* party B.  TLA+ sequences start at 1, so party p is entry p + 1.         *)
(***************************************************************************)
EXTENDS Encoding

CONSTANT AssetAddrs  \* Funder.assetAddrs: the assets this funder serves

\* needFunding(balances, assets).  It walks balances and looks at the asset
\* of the same index: "yes" at the first non-zero entry whose asset lives on
\* Solana, "panic" (index out of range) if it runs past the last asset.
needFunding_SkipsFirst(balances, assets) ==  \* mutant: the walk starts at 1
    LET hit(i) == i > 1 /\ i <= Len(assets) /\ balances[i] # 0 /\ IsSolana(assets[i])
    IN  IF \E i \in DOMAIN balances : hit(i) THEN "yes"
        ELSE IF Len(balances) > Len(assets)  THEN "panic"
        ELSE "no"

needFunding(balances, assets) ==
    LET hit(i) == i <= Len(assets) /\ balances[i] # 0 /\ IsSolana(assets[i])
    IN  IF \E i \in DOMAIN balances : hit(i) THEN "yes"
        ELSE IF Len(balances) > Len(assets)  THEN "panic"
        ELSE "no"

\* The call party p makes: needFunding(req.State.Balances[p], req.State.Assets).
\* Balances[p] is row p, and panics when there is none.
shouldFund(p, alloc) ==
    IF p + 1 > Len(alloc.bals) THEN "panic"
                               ELSE needFunding(alloc.bals[p + 1], alloc.assets)

\* containsAllAssets(stateAssets, fAssets): despite its name, one asset is enough.
containsAllAssets_Every(tokens, addrs) ==  \* mutant: what the name says
    \A i \in DOMAIN tokens : tokens[i].addr \in addrs

containsAllAssets(tokens, addrs) == \E i \in DOMAIN tokens : tokens[i].addr \in addrs

\* FundChannel reaches the contract backend.
FundChannelPasses(alloc, fresh) ==
    LET balances == MakeBalances(alloc, fresh)
    IN  balances.ok /\ containsAllAssets(balances.val.Tokens, AssetAddrs)

\* What the allocation asks of party p: some asset on Solana of which p holds
\* a share.  This is the meaning needFunding is measured against.
Owes(p, alloc) ==
    \E i \in DOMAIN alloc.assets :
        IsSolana(alloc.assets[i]) /\ alloc.bals[i][p + 1] # 0

=============================================================================
