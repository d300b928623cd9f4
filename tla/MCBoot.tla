------------------------------- MODULE MCBoot -------------------------------
(***************************************************************************)
(* Values for the constants of Boot: four migrations of which the third    *)
(* can be executed again, and three config files.  In the second a site    *)
(* has moved to another region, lost its border and been renamed; in the   *)
(* third a border file is bad.                                             *)
(***************************************************************************)
EXTENDS Boot

CONSTANTS Square, Shore

Site(name, border) == [name |-> name, border |-> border]

Region(slug, sites) == [slug |-> slug, sites |-> sites]

MCConfigs ==
  { [sites |-> [s \in {"YVR", "YYC"} |-> IF s = "YVR" THEN Site("Vancouver", Shore)
                                                       ELSE Site("Calgary", NoValue)],
     regions |-> <<Region("west", <<"YVR", "YYC">>)>>,
     scopes |-> <<"bc">>, hashtags |-> {"meshcore"}, keys |-> [h \in {"11"} |-> "public"]],
    [sites |-> [s \in {"YVR"} |-> Site("Metro", NoValue)],
     regions |-> <<Region("west", <<"YVR">>), Region("prairies", <<"YYC">>)>>,
     scopes |-> <<"#west", "#bc">>, hashtags |-> {}, keys |-> [h \in {"11"} |-> Bad]],
    [sites |-> [s \in {"YVR", "YYC"} |-> IF s = "YVR" THEN Site("Metro", Square)
                                                       ELSE Site("Calgary", Bad)],
     regions |-> <<>>, scopes |-> <<>>, hashtags |-> {}, keys |-> [h \in {} |-> Bad]] }

MCNormalName == [n \in {"bc", "#bc", "#west"} |-> IF n = "bc" THEN "#bc" ELSE n]

MCDerived == [t \in {"meshcore"} |-> <<"d9", "derived">>]
=============================================================================
