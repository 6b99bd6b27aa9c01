----------------------------- MODULE MCInvoices ------------------------------
EXTENDS Invoices
CONSTANTS o1, r1
MCOrders == {o1}
MCRequests == {r1}
=============================================================================
