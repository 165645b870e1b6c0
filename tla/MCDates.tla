------------------------------ MODULE MCDates ------------------------------
EXTENDS Dates

CONSTANTS loader, query

TwoThreads == {loader, query}
MCFields == {"year", "month", "day"}

=============================================================================
