-------------------------- MODULE MC_GatewayConfig --------------------------
(* Small instances of the gateway and the configuration it polls for TLC. *)
EXTENDS GatewayConfig

Route(p, t, n, d) ==
  [path |-> p, target |-> t, threshold |-> n, timeout |-> d, limit |-> 0, window |-> ""]

\* A breaker and its later correction on one mount, a route without a breaker on
\* the same target, another target, a route that the gateway skips, and
\* configurations that Athena accepts and Aegis cannot load: empty durations, a
\* path chi refuses, and one that must not come before the mount "/shop/*".
Strict == Route("/shop/*", "shop", 1, "10s")
Lenient == Route("/shop/*", "shop", 5, "60s")
Plain == Route("/cart/*", "shop", 0, "")
Other == Route("/blog", "blog", 2, "10s")
Shadowed == Route("/api/auth/x", "shop", 3, "")
NoTimeout == Route("/blog", "blog", 1, "")
NoWindow == [Plain EXCEPT !.limit = 100]
Everything == Route("/*", "blog", 0, "")
Prefix == Route("/shop*", "shop", 0, "")

MCAllConfigs == {Strict, Lenient, Other, Shadowed, NoTimeout, Everything, Prefix}
MCDistinctPaths == {Lenient, NoTimeout, NoWindow}
MCUnroutable == {"/*"}
MCClashes == {<<"/shop/*", "/shop/*">>, <<"/cart/*", "/cart/*">>, <<"/shop*", "/shop/*">>}
MCStatic == {"/api/auth/x"}
=============================================================================
