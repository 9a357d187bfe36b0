-------------------------- MODULE MCPluginClient --------------------------
EXTENDS PluginClient
=============================================================================
