--------------------------- MODULE MCMapReduceJob ---------------------------
\* An instance of MapReduceJob: three words.
EXTENDS MapReduceJob

MCWords == 1..3
=============================================================================
