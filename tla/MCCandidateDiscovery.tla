------------------------ MODULE MCCandidateDiscovery ------------------------
(* A small instance of CandidateDiscovery for TLC.                         *)
EXTENDS CandidateDiscovery

CONSTANTS cafe, transit, office, park

TwoGroups == <<cafe, transit>>
OneLate == <<office>>
OneBatch == <<park>>
AllGroups == {cafe, transit, office, park}

Some(c, t, o, k) == [g \in AllGroups |->
    CASE g = cafe -> c [] g = transit -> t [] g = office -> o [] g = park -> k]
(* A town whose range layer is cut; one with more cafes than a query       *)
(* returns, near and far from the centre and two stops at one distance     *)
(* from it; a town with hardly anything.                                   *)
ThreeTowns == {Some({-2, 1}, {0, 2}, {1}, {1}),
               Some({-1, 0, 1, 3}, {-3, 3}, {1}, {}),
               Some({2}, {}, {}, {1})}
(* A town of which a repair with one tile missing keeps exactly as many    *)
(* records as a query returns.                                             *)
OneTown == {Some({-3, -2, 1}, {0, 2}, {1}, {1})}
Catalogue == Some({-1, 1}, {0}, {0}, {2})
Rows == Some({-2}, {}, {}, {})

Layer(n, readable, suits, proxies, areas) ==
    [layers |-> n, readable |-> readable, suits |-> suits,
     proxies |-> proxies, areas |-> areas]
FourSites == [s \in {-2, -1, 1, 2} |->
    CASE s = -2 -> "allowed" [] s = 2 -> "review_required"
      [] s = 1 -> "allowed" [] OTHER -> "excluded"]
Layers ==
    {Layer(1, TRUE, FourSites, {}, TRUE),
     Layer(1, FALSE, FourSites, {-1, 1}, TRUE),
     Layer(2, TRUE, FourSites, {}, TRUE),
     Layer(0, TRUE, <<>>, {0}, FALSE),
     Layer(0, TRUE, <<>>, {}, TRUE)}
(* A service that answers, largest parcels first; one that is down; one    *)
(* that is down and whose earlier answer is kept.                          *)
Service(up, polygons, kept) == [up |-> up, polygons |-> polygons, kept |-> kept]
Services == {Service(TRUE, <<3, 0, -2, 1, 2>>, <<>>),
             Service(FALSE, <<0>>, <<>>),
             Service(FALSE, <<0>>, <<1, -1>>)}
=============================================================================
