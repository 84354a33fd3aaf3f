----------------------------- MODULE MCXmlLogs -----------------------------
EXTENDS XmlLogs

\* The two default files and one that cannot be written.
Names == {"circle.xml", "motion.xml", "locked"}
=============================================================================
