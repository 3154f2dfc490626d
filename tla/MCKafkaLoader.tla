---------------------------- MODULE MCKafkaLoader ----------------------------
EXTENDS KafkaLoader
====
