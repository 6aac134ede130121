---------------------------- MODULE MCSelection ----------------------------
(* Small instances of Selection: two Codex credentials and one of xAI in   *)
(* two tiers, and a third provider.                                        *)
EXTENDS Selection, TLC

CONSTANTS p1, p2, s1, s2

Providers == << "codex", "codex", "xai", "other", "codex" >>
Tiers == << 2, 1, 1, 1, 1 >>

\* Both Codex credentials carry the same e-mail address, each has its file.
BroadAliases == << {"file1", "mail"}, {"file2", "mail"}, {"file3"}, {"file4"}, {"file5"} >>
StrictAliases == << {"file1"}, {"file2"}, {"file3"}, {"file4"}, {"file5"} >>
FileRow == [strict |-> TRUE, aliases |-> {"file1"}]
MailRow == [strict |-> FALSE, aliases |-> {"mail"}]
XaiRow == [strict |-> TRUE, aliases |-> {"file3"}]
AllRows == {FileRow, MailRow, XaiRow}

Req(route, declared, offered, session) ==
  [route |-> route, declared |-> declared, offered |-> offered, inactive |-> {}, session |-> session]
CodexOnly(session) == Req("codex", {}, {1, 2}, session)
XaiOnly == Req("xai", {}, {3}, None)
MixedAll(session) == Req("mixed", {"codex", "xai"}, {1, 2, 3}, session)
EveryProvider(session) == Req("mixed", {"codex", "xai", "other"}, {1, 2, 3, 4}, session)
MixedPair(session) == Req("mixed", {"codex", "xai"}, {2, 5}, session)
MixedOther == Req("", {"codex", "other"}, {1, 4}, None)
OtherOnly == Req("other", {}, {4}, s1)
Odd == {Req("codex", {"xai"}, {1, 3}, None), Req("", {}, {1}, None), Req("", {}, {}, None),
        Req("xai", {}, {3, 4}, s1), [CodexOnly(None) EXCEPT !.inactive = {1}]}

AllRequests == {CodexOnly(s) : s \in {None, s1, s2}} \cup {MixedAll(s) : s \in {None, s1, s2}}
               \cup {MixedPair(s) : s \in {s1, s2}}
               \cup {EveryProvider(s1), XaiOnly, MixedOther, OtherOnly} \cup Odd

Scene(reqs, kinds) == [requests |-> reqs, changes |-> kinds]
AllScenes == {
  Scene({CodexOnly(s1), CodexOnly(s2)}, {"usage"}),
  Scene({CodexOnly(None), MixedAll(s1)}, {"restriction"}),
  Scene({MixedAll(s1), MixedAll(None)}, {"quarantine"}),
  Scene({MixedAll(s1), MixedAll(s2)}, {"usage"}),
  Scene({MixedPair(s1), MixedPair(s2)}, {"usage"}),
  Scene({XaiOnly, MixedOther, OtherOnly} \cup Odd, {"restriction", "quarantine", "configuration"})}

\* One session on a mixed route: a Codex credential first, three others behind it.
OneSession == {Scene({EveryProvider(s1)}, {})}
=============================================================================
