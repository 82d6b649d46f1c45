----------------------------- MODULE MCTableCalls -----------------------------
EXTENDS TableCalls, MCTable
=============================================================================
