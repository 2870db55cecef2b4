---------------------------- MODULE MC_RegexRange ----------------------------
EXTENDS RegexRange

\* A letter, a space separator, a line separator and a control character:
\* printable, printable whitespace, and the two kinds _is_printable refuses.
MCCategories == {<<"L", "u">>, <<"Z", "s">>, <<"Z", "l">>, <<"C", "c">>}

=============================================================================
