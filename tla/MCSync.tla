---- MODULE MCSync ----
EXTENDS Sync

AppConfig(id, caching, client, key) ==
    [id |-> id, caching |-> caching, client |-> client, provider |-> Null, key |-> key, url |-> "url"]
MCAppConfigs ==
    {AppConfig("a", TRUE, Null, Null), AppConfig("a", TRUE, "custom", "key"),
     AppConfig("a", FALSE, "custom", Null)}

Edit(edit, name, query) == [edit |-> edit, name |-> name, query |-> query]
MCScripts ==
    {<<Edit("add", "n1", "q1")>>, <<Edit("add", "n2", "q2")>>,
     <<Edit("update", "n1", "q2")>>, <<Edit("remove", "n1", Null)>>,
     <<Edit("clear", "n1", Null), Edit("add", "n2", "q1")>>,
     <<Edit("add", "n2", "q1"), Edit("update", "n2", "throws")>>}

Core(ssl, port, proxy) ==
    [ssl |-> ssl, address |-> "server", port |-> port, path |-> "/path?q", protocols |-> "p",
     proxy |-> proxy]
MCCoreEndpoints ==
    {Core(TRUE, 443, Null), Core(FALSE, 9090, Null), Core(TRUE, 443, [address |-> "proxy", port |-> 1])}
Url(scheme, port) ==
    [scheme |-> scheme, host |-> "other", port |-> port, path |-> "/", protocols |-> "p"]
MCOtherEndpoints == {Url("realms", Null), Url("ws", Null), Url("wss", 1234), Url("http", 80)}

Config(proxy, headers) == [proxy |-> proxy, headers |-> headers, verify |-> TRUE]
MCProxy(login) == [address |-> "mine", port |-> 8080, login |-> login]
MCProviderConfigs ==
    {Null, Config(Null, Null), Config(MCProxy(Null), Null), Config(MCProxy("user"), Null),
     Config(MCProxy("user"), {"X"})}
MCScopes == {"app", "session", "subscriptions", "connections", "loop"}
====
