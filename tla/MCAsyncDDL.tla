----------------------------- MODULE MCAsyncDDL -----------------------------
EXTENDS AsyncDDL

CONSTANTS ta, tb

TwoTables == {ta, tb}
====
