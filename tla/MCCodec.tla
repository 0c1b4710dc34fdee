------------------------------ MODULE MCCodec ------------------------------
EXTENDS Codec

\* Both ends of the range of a word, and a byte value of every enumerator.
MCWords   == {0, 1, 6, Power[WordSize] - 1}
MCStrings == {<< >>, <<0>>, <<3>>, <<1, 2>>, <<0, 0, 0>>}
=============================================================================
