----------------------------- MODULE MCConnection -----------------------------
(* Instances of Connection: the UI process, a web process and a plug-in    *)
(* process. The web process answers to the UI process and the plug-in      *)
(* process to the web process (WebProcess.cpp:255,                         *)
(* PluginProcess/WebProcessConnection.cpp:68).                             *)
EXTENDS Connection

CONSTANTS ui, web, plugin

ThreeProcesses == {ui, web, plugin}
WebAndPlugin == {web, plugin}
UIAndWeb == {ui, web}

TwoConnections == {"ui_web", "web_ui", "web_plugin", "plugin_web"}
PluginConnection == {"web_plugin", "plugin_web"}
UIConnection == {"ui_web", "web_ui"}

ProcessOfEndpoint ==
    [c \in Endpoints |-> CASE c = "ui_web" -> ui [] c = "plugin_web" -> plugin [] OTHER -> web]
PeerOfEndpoint ==
    [c \in Endpoints |->
        CASE c = "ui_web" -> "web_ui" [] c = "web_ui" -> "ui_web"
          [] c = "web_plugin" -> "plugin_web" [] c = "plugin_web" -> "web_plugin"]
Answering == {"web_ui", "plugin_web"} \cap Endpoints
ExitsOnFailure == {"web_ui"} \cap Endpoints

(* A plug-in process that crashes: the web process sees it on the socket,  *)
(* and hears of it from the UI process.                                    *)
HearOfCrash ==
    [c \in PluginConnection |-> IF c = "web_plugin" THEN {"postClose"} ELSE {}]

(* A web process sends to a plug-in process, which calls it and may crash, *)
(* while the UI process calls it, too.                                     *)
CalledByBoth ==
    [c \in TwoConnections |->
        CASE c = "web_plugin" -> {"send", "sendFlagged", "postClose"}
          [] c \in {"ui_web", "plugin_web"} -> {"sync"}
          [] OTHER -> {}]

(* PluginProxy sends GeometryDidChange; the plug-in calls back; the web    *)
(* process asks the UI process on its behalf.                              *)
Geometry ==
    [c \in TwoConnections |-> IF c = "web_plugin" THEN {"sendFlagged"} ELSE {"sync"}]
UITwice == [p \in Processes |-> IF p = ui THEN 2 ELSE 1]
WebTwice == [p \in Processes |-> IF p = web THEN 2 ELSE 1]

(* A UI process that does not wait for ever.                               *)
Impatient ==
    [c \in UIConnection |->
        IF c = "ui_web" THEN {"sync", "timeout", "wait", "waitInterruptibly", "invalidate"}
        ELSE {"send", "sync", "secondary", "secondaryTimeout"}]
===============================================================================
