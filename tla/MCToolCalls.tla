---------------------------- MODULE MCToolCalls ----------------------------
EXTENDS ToolCalls
MCServers == {"alpha", "beta"}
MCPlugins == {"alpha", "beta"}
MCCommands == {"test", "deploy"}
MCNothing == "nothing"
\* Paths that lead where they say, and two that do not.
MCPaths == {"code", "skill", "leaving", "entering"}
MCText == [p \in MCPaths |-> CASE p \in {"code", "leaving"} -> "writable"
                               [] p = "skill" -> "readable"
                               [] p = "entering" -> "outside"]
MCReal == [p \in MCPaths |-> CASE p \in {"code", "entering"} -> "writable"
                               [] p = "skill" -> "readable"
                               [] p = "leaving" -> "outside"]
\* Every policy and allow-list, with and without a terminal, a suite and plugins, but no servers; and, without a shell, one server that is
\* called, or two that are listed and whose names plugins have taken.
MCConfigs ==
    {c \in AllConfigs :
        \/ c.servers = {} /\ c.plugins \in {{}, Plugins} /\ c.suite # "deploy"
        \/ /\ c.policy = "DenyAll" /\ c.permitted = {} /\ ~c.terminal /\ c.suite = MCNothing
           /\ \/ c.servers = {"alpha"} /\ c.plugins = {}
              \/ c.servers = Servers /\ c.plugins = Plugins}
=============================================================================
