------------------------------ MODULE MCHashTable ------------------------------
EXTENDS HashTable, MCTable
=============================================================================
