--------------------------- MODULE MCPluginLoader ---------------------------
\* Instances of PluginLoader for TLC.
EXTENDS PluginLoader
=============================================================================
