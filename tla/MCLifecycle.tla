---------------------------- MODULE MCLifecycle ----------------------------
(* Instances of Lifecycle for TLC: the scenes a host may play.              *)
EXTENDS Lifecycle, TLC

CONSTANTS host, watcher, client

Play(h, w, c, enabled, due) ==
  [calls |-> host :> h @@ watcher :> w @@ client :> c,
   enabled |-> enabled, due |-> due, legacy |-> FALSE]

(* Publishers and picks while the plugin is reconfigured, unloaded, loaded. *)
Reloads ==
  {Play(<<"init", "configure", "shutdown", "init">>, <<"configure">>, <<"pick">>,
        {}, {"refresher", "maintenance"})}

(* The refreshes of the account protection over two configurations.         *)
Refreshing ==
  {Play(<<"init", "configure", "configure", "shutdown">>, <<"pick">>, <<"pick">>,
        {"protection"}, {})}

(* The summary cache: requests, the loop and usage.                         *)
Dashboards ==
  {Play(<<"init", "configure">>, <<"usage">>, <<"normal">>,
        {"precompute"}, {"precompute"})}

(* Its asynchronous refreshes, and the price updates they start, when the   *)
(* shutdown comes.                                                          *)
Unloads ==
  {Play(<<"init", "configure", "shutdown">>, <<>>, <<"normal", "fresh">>,
        {"precompute", "prices"}, {}),
   Play(<<"init", "configure", "shutdown">>, <<"usage">>, <<"sync", "fresh">>,
        {"precompute"}, {})}

(* Every other manager at work when the shutdown comes.                     *)
Rounds ==
  {Play(<<"init", "configure", "shutdown">>, <<"manage">>, <<>>,
        {"quota"}, {"quota", "retention", "health"})}

AllScenes == Reloads \union Refreshing \union Dashboards \union Unloads \union Rounds
=============================================================================
